---- MODULE Spec2Model ----
(***************************************************************************)
(* The style-state and history engine of Map Remix: AppState (the store),  *)
(* its history stack, the theme table, the export and import paths of      *)
(* ExportControls, and the components between the user, the store and the  *)
(* map: the style and layer panels, the debounced updates of the map, and  *)
(* the components' registrations with the store.                           *)
(*                                                                         *)
(* JavaScript objects are functions from property names to values; an      *)
(* absent property is a name outside the DOMAIN.  Numbers of the style     *)
(* documents are written as the text of their JSON literal ("0.8").        *)
(*                                                                         *)
(* Object identity is explicit: `heap` maps a reference to the document    *)
(* tree stored there, and the store's fields hold references.  One heap    *)
(* cell is a whole document tree: deepClone copies the tree recursively,   *)
(* and every value the store writes below the top level is a primitive     *)
(* or a fresh spread copy, so no two trees ever share a sub-object.        *)
(***************************************************************************)
EXTENDS Integers, Sequences, FiniteSets, TLC

VARIABLES
    heap,             \* reference -> document tree
    currentStyle,     \* AppState.currentStyle (a reference)
    layerVisibility,  \* AppState.layerVisibility
    styleHistory,     \* AppState.styleHistory (a sequence of references)
    historyIndex,     \* AppState.historyIndex (0-based, as in the code)
    activeTheme,      \* AppState.activeTheme
    isLoading,        \* AppState.isLoading
    held,             \* the document references a collaborator keeps (a
                      \* notification payload's `style`, the styleData the
                      \* import hands to the map controller, or the result
                      \* of getCurrentStyle()): a sequence of at most one
    emitted,          \* the events the last operation emitted, in order
    last,             \* the last operation: its name, arguments and result,
                      \* and whether redo entries existed and whether the
                      \* history was full when it began
    pushes,           \* number of _pushToHistory calls so far (saturating)
    listeners,        \* AppState.eventListeners: event -> the subscribers
                      \* registered for it, in registration order
    delivered,        \* the callbacks the last operation invoked, in order:
                      \* which subscriber, which event, its data, and the
                      \* busy flag the subscriber saw
    mutations,        \* the mutations the last operation applied to the
                      \* store, in order, each as the notification it owes
    timers,           \* the pending setTimeout timers of a debounced
                      \* function: id, arguments kept by the arrow function,
                      \* and the time at which the timer is due
    timeoutId,        \* debounce's timeoutId (0: undefined)
    now,              \* the time, in ticks
    log,              \* the calls of the debounced function and the runs
                      \* of func, in order, each with its arguments and time
    map,              \* the style the MapLibre map renders (map.getStyle())
    isExporting,      \* ExportControls.isExporting
    rendering,        \* the exportPNG calls awaiting the map's 'idle' event
    downloaded,       \* the style file handed to downloadBlob last (a
                      \* sequence of at most one), with the store's layers,
                      \* theme and Visibility Map at the time of the export
    destroyed         \* the UI components whose destroy() has run

vars == <<heap, currentStyle, layerVisibility, styleHistory, historyIndex,
          activeTheme, isLoading, held, emitted, last, pushes, listeners,
          delivered, mutations, timers, timeoutId, now, log, map,
          isExporting, rendering, downloaded, destroyed>>

timerVars == <<timers, timeoutId, now, log>>

appVars == <<map, isExporting, rendering, downloaded, destroyed>>

storeVars == <<heap, currentStyle, layerVisibility, styleHistory,
               historyIndex, activeTheme, isLoading, held, emitted, last,
               pushes, listeners, delivered, mutations>>

----------------------------------------------------------------------------
(* Bounds of the model. *)

\* Forward mutations explored from construction in Spec.
MaxPushes == 2

\* The last number the counting edits of SpecEvict write.
MaxBlur == 52

\* The time at which the clock of SpecDebounce stops, and the number of
\* calls of the debounced function made before then.
MaxTime == 6

MaxCalls == 3

\* The history bound of the store (this.maxHistorySize).
maxHistorySize == 50

----------------------------------------------------------------------------
(* JavaScript objects. *)

EmptyObj == [k \in {} |-> ""]

Has(obj, k) == k \in DOMAIN obj

\* obj[k] = v
Put(obj, k, v) == [x \in (DOMAIN obj) \cup {k} |-> IF x = k THEN v ELSE obj[x]]

\* { ...a, ...b }
Spread(a, b) == b @@ a

\* An omitted (undefined) argument, and a null result.
Undefined == <<>>
Null == [null |-> TRUE]

----------------------------------------------------------------------------
(* styles/defaultStyle.js *)

LineLayout == (("line-join" :> "round") @@ ("line-cap" :> "round") @@ ("visibility" :> "visible"))

VectorLayer(id, type, source, sourceLayer, layout, paint) ==
  [ id |-> id, type |-> type, source |-> source, layout |-> layout,
    paint |-> paint ] @@ ("source-layer" :> sourceLayer)

defaultStyle ==
  [ version  |-> 8,
    name     |-> "Map Remix Default",
    metadata |-> (("mapbox:autocomposite" :> "false") @@ ("mapbox:type" :> "template")),
    sources  |->
      [ colorado_highways |-> [ type |-> "vector",
          url |-> "pmtiles://assets/tiles/colorado_highways.pmtiles" ],
        colorado_rivers |-> [ type |-> "vector",
          url |-> "pmtiles://assets/tiles/colorado_rivers.pmtiles" ],
        colorado_rails |-> [ type |-> "vector",
          url |-> "pmtiles://assets/tiles/colorado_rails.pmtiles" ],
        osm_points |-> [ type |-> "vector",
          url |-> "pmtiles://assets/tiles/osm_points.pmtiles" ] ],
    layers   |->
      << [ id |-> "background", type |-> "background",
           paint |-> (("background-color" :> "#f8f9fa")) ],
         VectorLayer("colorado_rivers", "line", "colorado_rivers", "rivers",
           LineLayout,
           (("line-color" :> "#2196F3") @@ ("line-width" :> "2") @@ ("line-opacity" :> "0.8"))),
         VectorLayer("colorado_rails", "line", "colorado_rails", "rails",
           LineLayout,
           (("line-color" :> "#795548") @@ ("line-width" :> "2") @@ ("line-opacity" :> "0.7") @@ ("line-dasharray" :> <<"3", "3">>))),
         VectorLayer("colorado_highways", "line", "colorado_highways", "highways",
           LineLayout,
           (("line-color" :> "#FF5722") @@ ("line-width" :> "3") @@ ("line-opacity" :> "0.9"))),
         VectorLayer("osm_points", "circle", "osm_points", "points",
           [ visibility |-> "visible" ],
           (("circle-color" :> "#4CAF50") @@ ("circle-radius" :> "4") @@ ("circle-opacity" :> "0.8") @@ ("circle-stroke-color" :> "#ffffff") @@ ("circle-stroke-width" :> "1"))) >>,
    center   |-> <<"-105.7821", "39.7391">>,
    zoom     |-> "7",
    bearing  |-> "0",
    pitch    |-> "0" ]

layerConfig ==
  [ colorado_highways |-> [ name |-> "Colorado Highways", type |-> "line",
                            defaultVisible |-> TRUE ],
    colorado_rivers   |-> [ name |-> "Colorado Rivers", type |-> "line",
                            defaultVisible |-> TRUE ],
    colorado_rails    |-> [ name |-> "Colorado Rails", type |-> "line",
                            defaultVisible |-> TRUE ],
    osm_points        |-> [ name |-> "Points of Interest", type |-> "circle",
                            defaultVisible |-> TRUE ] ]

----------------------------------------------------------------------------
(* The theme table. *)

LinePaint(color, width, opacity) ==
  [ paint |-> (("line-color" :> color) @@ ("line-width" :> width) @@ ("line-opacity" :> opacity)) ]

ThemeOf(nm, descr, bg, roads, railways, power) ==
  [ name |-> nm, description |-> descr,
    background |-> (("background-color" :> bg)),
    layers |-> [ co_roads |-> roads, co_railways |-> railways,
                 co_power_lines |-> power ] ]

themes ==
  [ default |-> ThemeOf("Default", "Clean, modern cartographic style",
        "#f8f9fa", LinePaint("#FF5722", "2.5", "0.9"),
        LinePaint("#795548", "2", "0.8"), LinePaint("#9C27B0", "1.5", "0.7")),
    retro   |-> ThemeOf("Retro", "Vintage-inspired earth tones",
        "#f4f1e8", LinePaint("#8B4513", "3", "0.85"),
        LinePaint("#2F4F4F", "2", "0.8"), LinePaint("#DAA520", "1.5", "0.75")),
    night   |-> ThemeOf("Night", "Dark theme with neon accents",
        "#1a1a1a", LinePaint("#00FFFF", "3", "0.9"),
        LinePaint("#FF69B4", "2", "0.8"), LinePaint("#FFFF00", "1.5", "0.9")),
    terrain |-> ThemeOf("Terrain",
        "Natural colors inspired by topographic maps",
        "#f0f8e8", LinePaint("#8B0000", "3", "0.8"),
        LinePaint("#8B4513", "2", "0.7"), LinePaint("#228B22", "1.5", "0.8")),
    minimal |-> ThemeOf("Minimal", "Clean, high-contrast design",
        "#ffffff", LinePaint("#000000", "2", "1.0"),
        LinePaint("#333333", "1.5", "0.8"), LinePaint("#666666", "1", "0.6")) ]

\* getTheme with a fault: an unknown name falls back to the default theme.
getThemeOrDefault(themeName) ==
  IF themeName \in DOMAIN themes THEN themes[themeName] ELSE themes["default"]

\* themes[themeName] || null
getTheme(themeName) ==
  IF themeName \in DOMAIN themes THEN themes[themeName] ELSE Null

----------------------------------------------------------------------------
(* The heap. *)

\* The module-level defaultStyle object lives at this reference.
DefaultRef == 1

FreshRef(h) == CHOOSE r \in 1..(Cardinality(DOMAIN h) + 1) : r \notin DOMAIN h

\* utils/helpers.js deepClone: a new object holding a recursive copy of the
\* tree at r.  The result names the new reference and the heap with it.
deepClone(h, r) ==
  [ ref |-> FreshRef(h), heap |-> (FreshRef(h) :> h[r]) @@ h ]

\* The store as one record, for the operations below.
Store ==
  [ heap |-> heap, currentStyle |-> currentStyle,
    layerVisibility |-> layerVisibility, styleHistory |-> styleHistory,
    historyIndex |-> historyIndex, activeTheme |-> activeTheme,
    isLoading |-> isLoading, held |-> held, emitted |-> <<>>,
    returned |-> TRUE, listeners |-> listeners, delivered |-> <<>>,
    mutations |-> <<>> ]

Doc(s) == s.heap[s.currentStyle]

\* The documents of the history, oldest first.
Snapshots(s) == [i \in DOMAIN s.styleHistory |-> s.heap[s.styleHistory[i]]]

\* Object identity is observable only through sharing, so a state names its
\* live objects by the place of their first use: the default style, the
\* history entries, the current style, the held references.  Objects no
\* longer referenced are dropped (garbage collection).
Roots(s) == <<DefaultRef>> \o s.styleHistory \o <<s.currentStyle>> \o s.held

FirstAt(seq, r) ==
  CHOOSE i \in DOMAIN seq : seq[i] = r /\ \A j \in 1..(i - 1) : seq[j] # r

\* The name of the i-th root.  While the default style and the history
\* entries are pairwise distinct objects (n of them), each is the first use
\* of its object, and only the roots after them need the search.
Canon(s) ==
  LET o == Roots(s)
      n == Len(s.styleHistory) + 1
      distinct == Cardinality({o[i] : i \in 1..n}) = n
      name(i) == IF distinct /\ i <= n THEN i ELSE FirstAt(o, o[i])
      names == {name(i) : i \in DOMAIN o}
  IN [ s EXCEPT
         !.heap = [m \in names |-> s.heap[o[m]]],
         !.currentStyle = name(n + 1),
         !.styleHistory = [i \in DOMAIN s.styleHistory |-> name(i + 1)],
         !.held = [i \in DOMAIN s.held |-> name(n + 1 + i)] ]

----------------------------------------------------------------------------
(* AppState *)

\* A mutation has been applied; it owes its subscribers this notification.
Applied(s, event, data) ==
  [s EXCEPT !.mutations = Append(@, [ event |-> event, data |-> data ])]

\* The data of the historyChanged event.
HistoryData(s) ==
  [ canUndo |-> s.historyIndex > 0,
    canRedo |-> s.historyIndex < Len(s.styleHistory) - 1,
    historyLength |-> Len(s.styleHistory) ]


canUndo(s) == s.historyIndex > 0

canRedo(s) == s.historyIndex < Len(s.styleHistory) - 1

\* layers.find(l => l.id === layerId): the index of the first match, 0 if none.
FindLayer(layers, layerId) ==
  IF \E i \in DOMAIN layers : layers[i].id = layerId
  THEN CHOOSE i \in DOMAIN layers :
         layers[i].id = layerId /\ \A j \in 1..(i - 1) : layers[j].id # layerId
  ELSE 0

\* obj[k] if present, else {} (the `...undefined` of a spread, `|| {}`).
OrEmpty(obj, k) == IF Has(obj, k) THEN obj[k] ELSE EmptyObj

\* The data of updateStyle's styleChanged event, without its `style` (the
\* current document itself, which Retain hands to the subscriber).
StyleData(layers, i, layerId, property, value) ==
  [ layerId |-> layerId, property |-> property, value |-> value,
    oldValue |-> IF Has(OrEmpty(layers[i], "paint"), property)
                 THEN <<layers[i].paint[property]>> ELSE Undefined ]

initializeLayerVisibility ==
  [layerId \in DOMAIN layerConfig |-> layerConfig[layerId].defaultVisible]

\* The per-layer loop with a fault: the layer's paint is replaced by the
\* bundle's instead of merged with it.
MergeLayersReplace(layers, themeData) ==
  [i \in DOMAIN layers |->
     LET id == layers[i].id IN
     IF /\ Has(themeData, "layers")
        /\ id \in DOMAIN themeData.layers
        /\ i = FindLayer(layers, id)
        /\ Has(themeData.layers[id], "paint")
     THEN Put(layers[i], "paint", themeData.layers[id].paint)
     ELSE layers[i]]

\* The merge of applyTheme: the per-layer loop, then the background.
MergeLayers(layers, themeData) ==
  [i \in DOMAIN layers |->
     LET id == layers[i].id IN
     IF /\ Has(themeData, "layers")
        /\ id \in DOMAIN themeData.layers
        /\ i = FindLayer(layers, id)
        /\ Has(themeData.layers[id], "paint")
     THEN Put(layers[i], "paint",
              Spread(OrEmpty(layers[i], "paint"), themeData.layers[id].paint))
     ELSE layers[i]]

MergeBackground(layers, themeData) ==
  LET b == FindLayer(layers, "background") IN
  IF Has(themeData, "background") /\ b # 0
  THEN [layers EXCEPT ![b] = Put(layers[b], "paint",
          Spread(OrEmpty(layers[b], "paint"), themeData.background))]
  ELSE layers

\* Object.entries(themeData.layers): the keys in insertion order.  The
\* bundles of this model write their layer keys in this order.
EntryOrder ==
  << "co_roads", "co_railways", "co_power_lines",
     "colorado_rivers", "colorado_rails" >>

Entries(obj) == SelectSeq(EntryOrder, LAMBDA k : k \in DOMAIN obj)

\* The place in Object.entries(themeData.layers) where the loop throws:
\* `layer && layerChanges.paint` reads .paint of a null entry once the
\* document has the layer.  0 when the loop runs to its end.
ThrowsAt(layers, themeData) ==
  LET e == IF Has(themeData, "layers") THEN Entries(themeData.layers)
           ELSE <<>>
      bad(k) == /\ FindLayer(layers, e[k]) # 0
                /\ themeData.layers[e[k]] = Null
  IN IF \E k \in DOMAIN e : bad(k)
     THEN CHOOSE k \in DOMAIN e : bad(k) /\ \A j \in 1..(k - 1) : ~bad(j)
     ELSE 0

\* The bundle cut down to the entries the loop handled before entry t.
EntriesBefore(themeData, t) ==
  LET e == Entries(themeData.layers)
  IN [themeData EXCEPT !.layers =
        [k \in {e[j] : j \in 1..(t - 1)} |-> themeData.layers[k]]]

\* The subscribers of the model.  Each is a callback(data) that first notes
\* what it was given and the busy flag it can read from the store; then
\*   recorder  returns;
\*   thrower   throws;
\*   widener   on a styleChanged for 'line-color', sets the same layer's
\*             'line-width' through the store (a derived value);
\*   overlay   on a themeChanged for a theme other than 'minimal', applies
\*             the 'minimal' theme on top through the store.
Subscribers == { "recorder", "thrower", "widener", "overlay" }

\* callback(data) of a subscriber for an event on which it makes no call of
\* the store: it notes what it was given and returns or throws.  `threw`
\* tells emit's try/catch how the callback ended.
callback(s, sub, event, data) ==
  [ store |-> [s EXCEPT !.delivered =
                 Append(@, [ to |-> sub, event |-> event, data |-> data,
                             isLoading |-> s.isLoading ])],
    threw |-> sub = "thrower" ]

\* forEach over the subscribers with a fault: one try/catch around the
\* whole loop, so the first throw ends the delivery.
RECURSIVE forEachStopAtThrow(_, _, _, _)
forEachStopAtThrow(s, subs, event, data) ==
  IF subs = <<>> THEN s
  ELSE LET r == callback(s, Head(subs), event, data)
       IN IF r.threw THEN r.store
          ELSE forEachStopAtThrow(r.store, Tail(subs), event, data)

\* this.eventListeners.get(event).forEach(callback => { try { callback(data)
\* } catch (error) { console.error(...) } }): a throw is caught and logged,
\* and the loop goes on with the next subscriber.
RECURSIVE forEach(_, _, _, _)
forEach(s, subs, event, data) ==
  IF subs = <<>> THEN s
  ELSE forEach(callback(s, Head(subs), event, data).store, Tail(subs),
               event, data)

\* emit(event, data): the listeners run synchronously, each in a try/catch.
emit(s, event, data) ==
  LET s1 == [s EXCEPT !.emitted = Append(@, event)]
  IN IF ~Has(s.listeners, event) THEN s1
     ELSE forEach(s1, s.listeners[event], event, data)

\* The steps of _pushToHistory with a fault: the copy is appended before
\* the redo entries are cut off.
pushStepsAppendFirst(s) ==
  LET c  == deepClone(s.heap, s.currentStyle)
      s1 == [s EXCEPT !.heap = c.heap,
                      !.styleHistory = Append(@, c.ref)]
      s2 == IF s.historyIndex < Len(s.styleHistory) - 1
            THEN [s1 EXCEPT !.styleHistory = SubSeq(@, 1, s.historyIndex + 1)]
            ELSE s1
      s3 == [s2 EXCEPT !.historyIndex = Len(s2.styleHistory) - 1]
      s4 == IF Len(s3.styleHistory) > maxHistorySize
            THEN [s3 EXCEPT !.styleHistory = Tail(@),
                            !.historyIndex = @ - 1]
            ELSE s3
  IN << s1, s3, s4 >>

\* The store after each step of _pushToHistory: after the slice that drops
\* the redo entries, after the push of the copy (with the cursor on it),
\* after the shift that keeps the size limit.
pushSteps(s) ==
  LET s1 == IF s.historyIndex < Len(s.styleHistory) - 1
            THEN [s EXCEPT !.styleHistory = SubSeq(@, 1, s.historyIndex + 1)]
            ELSE s
      c  == deepClone(s1.heap, s1.currentStyle)
      s2 == [s1 EXCEPT !.heap = c.heap,
                       !.styleHistory = Append(@, c.ref)]
      s3 == [s2 EXCEPT !.historyIndex = Len(s2.styleHistory) - 1]
      s4 == IF Len(s3.styleHistory) > maxHistorySize
            THEN [s3 EXCEPT !.styleHistory = Tail(@),
                            !.historyIndex = @ - 1]
            ELSE s3
  IN << s1, s3, s4 >>

\* _pushToHistory with a fault: the size limit left out; the cursor not
\* moved back with the eviction; the redo entries kept.
pushToHistoryNoEvict(s) ==
  LET s1 == IF s.historyIndex < Len(s.styleHistory) - 1
            THEN [s EXCEPT !.styleHistory = SubSeq(@, 1, s.historyIndex + 1)]
            ELSE s
      c  == deepClone(s1.heap, s1.currentStyle)
      s2 == [s1 EXCEPT !.heap = c.heap,
                       !.styleHistory = Append(@, c.ref)]
      s3 == [s2 EXCEPT !.historyIndex = Len(s2.styleHistory) - 1]
  IN emit(s3, "historyChanged", HistoryData(s3))

pushToHistoryKeepCursor(s) ==
  LET s1 == IF s.historyIndex < Len(s.styleHistory) - 1
            THEN [s EXCEPT !.styleHistory = SubSeq(@, 1, s.historyIndex + 1)]
            ELSE s
      c  == deepClone(s1.heap, s1.currentStyle)
      s2 == [s1 EXCEPT !.heap = c.heap,
                       !.styleHistory = Append(@, c.ref)]
      s3 == [s2 EXCEPT !.historyIndex = Len(s2.styleHistory) - 1]
      s4 == IF Len(s3.styleHistory) > maxHistorySize
            THEN [s3 EXCEPT !.styleHistory = Tail(@),
                            !.historyIndex = @]
            ELSE s3
  IN emit(s4, "historyChanged", HistoryData(s4))

pushToHistoryNoTruncate(s) ==
  LET c  == deepClone(s.heap, s.currentStyle)
      s2 == [s EXCEPT !.heap = c.heap,
                      !.styleHistory = Append(@, c.ref)]
      s3 == [s2 EXCEPT !.historyIndex = Len(s2.styleHistory) - 1]
      s4 == IF Len(s3.styleHistory) > maxHistorySize
            THEN [s3 EXCEPT !.styleHistory = Tail(@),
                            !.historyIndex = @ - 1]
            ELSE s3
  IN emit(s4, "historyChanged", HistoryData(s4))

\* _pushToHistory with a fault: the eviction removes the second oldest
\* entry.
pushToHistoryEvictSecond(s) ==
  LET s1 == IF s.historyIndex < Len(s.styleHistory) - 1
            THEN [s EXCEPT !.styleHistory = SubSeq(@, 1, s.historyIndex + 1)]
            ELSE s
      c  == deepClone(s1.heap, s1.currentStyle)
      s2 == [s1 EXCEPT !.heap = c.heap,
                       !.styleHistory = Append(@, c.ref)]
      s3 == [s2 EXCEPT !.historyIndex = Len(s2.styleHistory) - 1]
      s4 == IF Len(s3.styleHistory) > maxHistorySize
            THEN [s3 EXCEPT !.styleHistory = <<Head(@)>> \o Tail(Tail(@)),
                            !.historyIndex = @ - 1]
            ELSE s3
  IN emit(s4, "historyChanged", HistoryData(s4))

\* _pushToHistory with a fault: the current document itself is appended,
\* not a copy of it.
pushToHistoryNoClone(s) ==
  LET s1 == IF s.historyIndex < Len(s.styleHistory) - 1
            THEN [s EXCEPT !.styleHistory = SubSeq(@, 1, s.historyIndex + 1)]
            ELSE s
      s2 == [s1 EXCEPT !.styleHistory = Append(@, s1.currentStyle)]
      s3 == [s2 EXCEPT !.historyIndex = Len(s2.styleHistory) - 1]
      s4 == IF Len(s3.styleHistory) > maxHistorySize
            THEN [s3 EXCEPT !.styleHistory = Tail(@),
                            !.historyIndex = @ - 1]
            ELSE s3
  IN emit(s4, "historyChanged", HistoryData(s4))

pushToHistory(s) ==
  LET notify(s4) == emit(s4, "historyChanged", HistoryData(s4))
  IN notify(pushSteps(s)[3])

\* updateStyle with a fault: the snapshot is pushed before the layer is
\* looked up.
updateStylePushFirst(s, layerId, property, value) ==
  LET p == pushToHistory(s)
      layers == Doc(p).layers
      i == FindLayer(layers, layerId)
  IN IF i = 0
     THEN [p EXCEPT !.returned = FALSE]
     ELSE LET layer == Put(layers[i], "paint",
                           Put(OrEmpty(layers[i], "paint"), property, value))
              data == StyleData(layers, i, layerId, property, value)
              s1 == Applied(
                      [p EXCEPT !.heap[p.currentStyle].layers[i] = layer],
                      "styleChanged", data)
          IN [emit(s1, "styleChanged", data) EXCEPT !.returned = TRUE]

updateStyle(s, layerId, property, value) ==
  LET layers == Doc(s).layers
      i == FindLayer(layers, layerId)
  IN IF i = 0
     THEN [s EXCEPT !.returned = FALSE]
     ELSE LET layer == Put(layers[i], "paint",
                           Put(OrEmpty(layers[i], "paint"), property, value))
              data == StyleData(layers, i, layerId, property, value)
              s1 == Applied(
                      [s EXCEPT !.heap[s.currentStyle].layers[i] = layer],
                      "styleChanged", data)
              s2 == pushToHistory(s1)
          IN [emit(s2, "styleChanged", data) EXCEPT !.returned = TRUE]

\* toggleLayerVisibility with a fault: the layer's layout is not updated.
toggleLayerVisibilityMapOnly(s, layerId, visible) ==
  LET v == IF visible = Undefined
           THEN ~(Has(s.layerVisibility, layerId)
                   /\ s.layerVisibility[layerId])
           ELSE visible[1]
      s1 == [s EXCEPT !.layerVisibility = Put(@, layerId, v)]
      data == [ layerId |-> layerId, visible |-> v,
                layerVisibility |-> s1.layerVisibility ]
      s2 == Applied(s1, "layerVisibilityChanged", data)
  IN [emit(s2, "layerVisibilityChanged", data) EXCEPT !.returned = v]

\* toggleLayerVisibility with a fault: an unknown layer id returns before
\* the Visibility Map is written.
toggleLayerVisibilityKnownOnly(s, layerId, visible) ==
  LET v == IF visible = Undefined
           THEN ~(Has(s.layerVisibility, layerId)
                   /\ s.layerVisibility[layerId])
           ELSE visible[1]
      layers == Doc(s).layers
      i == FindLayer(layers, layerId)
  IN IF i = 0
     THEN [s EXCEPT !.returned = v]
     ELSE LET s1 == [s EXCEPT !.layerVisibility = Put(@, layerId, v)]
              s2 == [s1 EXCEPT !.heap[s.currentStyle].layers[i] =
                       Put(layers[i], "layout",
                           Put(OrEmpty(layers[i], "layout"), "visibility",
                               IF v THEN "visible" ELSE "none"))]
              data == [ layerId |-> layerId, visible |-> v,
                        layerVisibility |-> s2.layerVisibility ]
              s3 == Applied(s2, "layerVisibilityChanged", data)
          IN [emit(s3, "layerVisibilityChanged", data)
                EXCEPT !.returned = v]

\* visible is Undefined (omitted) or <<flag>>.
toggleLayerVisibility(s, layerId, visible) ==
  LET v == IF visible = Undefined
           THEN ~(Has(s.layerVisibility, layerId)
                   /\ s.layerVisibility[layerId])
           ELSE visible[1]
      s1 == [s EXCEPT !.layerVisibility = Put(@, layerId, v)]
      layers == Doc(s1).layers
      i == FindLayer(layers, layerId)
      s2 == IF i # 0
            THEN [s1 EXCEPT !.heap[s.currentStyle].layers[i] =
                    Put(layers[i], "layout",
                        Put(OrEmpty(layers[i], "layout"), "visibility",
                            IF v THEN "visible" ELSE "none"))]
            ELSE s1
      data == [ layerId |-> layerId, visible |-> v,
                layerVisibility |-> s2.layerVisibility ]
      s3 == Applied(s2, "layerVisibilityChanged", data)
  IN [emit(s3, "layerVisibilityChanged", data) EXCEPT !.returned = v]

\* applyTheme with a fault: a snapshot is pushed after the layer loop and
\* another after the background.
applyThemePushPerStep(s, themeName, themeData) ==
  LET s1 == emit([s EXCEPT !.isLoading = TRUE], "loadingChanged",
                 [ isLoading |-> TRUE ])
      previousStyle == deepClone(s1.heap, s1.currentStyle)
      s2 == [s1 EXCEPT !.heap = previousStyle.heap]
      done(t, r) == emit([t EXCEPT !.isLoading = FALSE, !.returned = r],
                         "loadingChanged", [ isLoading |-> FALSE ])
      data == [ themeName |-> themeName, previousTheme |-> s1.activeTheme ]
      failure == [ type |-> "themeChange" ]
  IN IF themeData = Null
     THEN done(emit(s2, "error", failure), FALSE)
     ELSE IF ThrowsAt(Doc(s2).layers, themeData) # 0
     THEN LET t == ThrowsAt(Doc(s2).layers, themeData)
              s3 == [s2 EXCEPT !.heap[s2.currentStyle].layers =
                       MergeLayers(@, EntriesBefore(themeData, t))]
          IN done(emit(s3, "error", failure), FALSE)
     ELSE LET s3 == pushToHistory(
                      [s2 EXCEPT !.heap[s2.currentStyle].layers =
                         MergeLayers(@, themeData)])
              s4 == pushToHistory(Applied(
                      [s3 EXCEPT !.heap[s2.currentStyle].layers =
                         MergeBackground(@, themeData),
                       !.activeTheme = themeName],
                      "themeChanged", data))
          IN done(emit(s4, "themeChanged", data), TRUE)

\* async, but without an await: the body runs to its end within the call.
\* There is no test of isLoading before it starts.
applyTheme(s, themeName, themeData) ==
  LET s1 == emit([s EXCEPT !.isLoading = TRUE], "loadingChanged",
                 [ isLoading |-> TRUE ])
      previousStyle == deepClone(s1.heap, s1.currentStyle)
      s2 == [s1 EXCEPT !.heap = previousStyle.heap]
      done(t, r) == emit([t EXCEPT !.isLoading = FALSE, !.returned = r],
                         "loadingChanged", [ isLoading |-> FALSE ])
      data == [ themeName |-> themeName, previousTheme |-> s1.activeTheme ]
      failure == [ type |-> "themeChange" ]
  IN IF themeData = Null
     THEN \* themeData.layers throws; catch, then finally
          done(emit(s2, "error", failure), FALSE)
     ELSE IF ThrowsAt(Doc(s2).layers, themeData) # 0
     THEN \* the loop throws part-way: the layers merged so far stay merged
          \* (previousStyle is not used by the catch)
          LET t == ThrowsAt(Doc(s2).layers, themeData)
              s3 == [s2 EXCEPT !.heap[s2.currentStyle].layers =
                       MergeLayers(@, EntriesBefore(themeData, t))]
          IN done(emit(s3, "error", failure), FALSE)
     ELSE LET merged == MergeBackground(
                          MergeLayers(Doc(s2).layers, themeData), themeData)
              s3 == [s2 EXCEPT !.heap[s2.currentStyle].layers = merged,
                               !.activeTheme = themeName]
              s4 == pushToHistory(Applied(s3, "themeChanged", data))
          IN done(emit(s4, "themeChanged", data), TRUE)

\* callback(data) of a subscriber, with the calls of the store that the
\* widener and the overlay make from it; the value such a call returns to
\* the callback is dropped.  The calls they make (a 'line-width', the
\* 'minimal' theme) are ones that none of them answers with a further call.
callbackReentrant(s, sub, event, data) ==
  LET r == callback(s, sub, event, data)
  IN CASE sub = "widener" /\ event = "styleChanged"
            /\ Has(data, "property") /\ data.property = "line-color" ->
            [ store |-> [updateStyle(r.store, data.layerId, "line-width", "4")
                           EXCEPT !.returned = s.returned],
              threw |-> FALSE ]
       [] sub = "overlay" /\ event = "themeChanged"
            /\ data.themeName # "minimal" ->
            [ store |-> [applyTheme(r.store, "minimal", getTheme("minimal"))
                           EXCEPT !.returned = s.returned],
              threw |-> FALSE ]
       [] OTHER -> r

RECURSIVE forEachReentrant(_, _, _, _)
forEachReentrant(s, subs, event, data) ==
  IF subs = <<>> THEN s
  ELSE forEachReentrant(callbackReentrant(s, Head(subs), event, data).store,
                        Tail(subs), event, data)

\* emit(event, data) of an event on which a subscriber may call the store.
emitReentrant(s, event, data) ==
  LET s1 == [s EXCEPT !.emitted = Append(@, event)]
  IN IF ~Has(s.listeners, event) THEN s1
     ELSE forEachReentrant(s1, s.listeners[event], event, data)

\* updateStyle with subscribers that may call the store on styleChanged.
updateStyleReentrant(s, layerId, property, value) ==
  LET layers == Doc(s).layers
      i == FindLayer(layers, layerId)
  IN IF i = 0
     THEN [s EXCEPT !.returned = FALSE]
     ELSE LET layer == Put(layers[i], "paint",
                           Put(OrEmpty(layers[i], "paint"), property, value))
              data == StyleData(layers, i, layerId, property, value)
              s1 == Applied(
                      [s EXCEPT !.heap[s.currentStyle].layers[i] = layer],
                      "styleChanged", data)
              s2 == pushToHistory(s1)
          IN [emitReentrant(s2, "styleChanged", data)
                EXCEPT !.returned = TRUE]

\* applyTheme with subscribers that may call the store on themeChanged.
applyThemeReentrant(s, themeName, themeData) ==
  LET s1 == emit([s EXCEPT !.isLoading = TRUE], "loadingChanged",
                 [ isLoading |-> TRUE ])
      previousStyle == deepClone(s1.heap, s1.currentStyle)
      s2 == [s1 EXCEPT !.heap = previousStyle.heap]
      done(t, r) == emit([t EXCEPT !.isLoading = FALSE, !.returned = r],
                         "loadingChanged", [ isLoading |-> FALSE ])
      data == [ themeName |-> themeName, previousTheme |-> s1.activeTheme ]
      failure == [ type |-> "themeChange" ]
  IN IF themeData = Null
     THEN done(emit(s2, "error", failure), FALSE)
     ELSE IF ThrowsAt(Doc(s2).layers, themeData) # 0
     THEN LET t == ThrowsAt(Doc(s2).layers, themeData)
              s3 == [s2 EXCEPT !.heap[s2.currentStyle].layers =
                       MergeLayers(@, EntriesBefore(themeData, t))]
          IN done(emit(s3, "error", failure), FALSE)
     ELSE LET merged == MergeBackground(
                          MergeLayers(Doc(s2).layers, themeData), themeData)
              s3 == [s2 EXCEPT !.heap[s2.currentStyle].layers = merged,
                               !.activeTheme = themeName]
              s4 == pushToHistory(Applied(s3, "themeChanged", data))
          IN done(emitReentrant(s4, "themeChanged", data), TRUE)

\* getCurrentStyle with a fault: the store's own object is returned.
getCurrentStyleShared(s) == [s EXCEPT !.held = <<s.currentStyle>>]

getCurrentStyle(s) ==
  LET c == deepClone(s.heap, s.currentStyle)
  IN [s EXCEPT !.heap = c.heap, !.held = <<c.ref>>]

\* undo with a fault: the entry left behind is removed from the history.
undoDroppingEntry(s) ==
  IF ~canUndo(s)
  THEN [s EXCEPT !.returned = FALSE]
  ELSE LET c == deepClone(s.heap, s.styleHistory[s.historyIndex])
           s1 == [s EXCEPT !.historyIndex = @ - 1, !.heap = c.heap,
                           !.currentStyle = c.ref,
                           !.styleHistory = SubSeq(@, 1, s.historyIndex)]
           s2 == emit(Applied(s1, "styleChanged", [ type |-> "undo" ]),
                      "styleChanged", [ type |-> "undo" ])
       IN [emit(s2, "historyChanged", HistoryData(s2))
             EXCEPT !.returned = TRUE]

undo(s) ==
  IF ~canUndo(s)
  THEN [s EXCEPT !.returned = FALSE]
  ELSE LET c == deepClone(s.heap, s.styleHistory[s.historyIndex])
           s1 == [s EXCEPT !.historyIndex = @ - 1, !.heap = c.heap,
                           !.currentStyle = c.ref]
           s2 == emit(Applied(s1, "styleChanged", [ type |-> "undo" ]),
                      "styleChanged", [ type |-> "undo" ])
       IN [emit(s2, "historyChanged", HistoryData(s2))
             EXCEPT !.returned = TRUE]

redo(s) ==
  IF ~canRedo(s)
  THEN [s EXCEPT !.returned = FALSE]
  ELSE LET c == deepClone(s.heap, s.styleHistory[s.historyIndex + 2])
           s1 == [s EXCEPT !.historyIndex = @ + 1, !.heap = c.heap,
                           !.currentStyle = c.ref]
           s2 == emit(Applied(s1, "styleChanged", [ type |-> "redo" ]),
                      "styleChanged", [ type |-> "redo" ])
       IN [emit(s2, "historyChanged", HistoryData(s2))
             EXCEPT !.returned = TRUE]

\* resetToDefault with a fault: the Visibility Map is left as it is.
resetToDefaultKeepMap(s) ==
  LET c == deepClone(s.heap, DefaultRef)
      s1 == [s EXCEPT !.heap = c.heap, !.currentStyle = c.ref,
                      !.activeTheme = "default"]
      data == [ layerVisibility |-> s1.layerVisibility ]
  IN emit(pushToHistory(Applied(s1, "styleReset", data)), "styleReset",
          data)

resetToDefault(s) ==
  LET c == deepClone(s.heap, DefaultRef)
      s1 == [s EXCEPT !.heap = c.heap, !.currentStyle = c.ref,
                      !.layerVisibility = initializeLayerVisibility,
                      !.activeTheme = "default"]
      data == [ layerVisibility |-> s1.layerVisibility ]
  IN emit(pushToHistory(Applied(s1, "styleReset", data)), "styleReset",
          data)

\* The constructor.
NewAppState ==
  LET c1 == deepClone((DefaultRef :> defaultStyle), DefaultRef)
      c2 == deepClone(c1.heap, c1.ref)
  IN [ heap |-> c2.heap, currentStyle |-> c1.ref,
       layerVisibility |-> initializeLayerVisibility,
       styleHistory |-> <<c2.ref>>, historyIndex |-> 0,
       activeTheme |-> "default", isLoading |-> FALSE,
       held |-> <<>>, emitted |-> <<>>, returned |-> TRUE,
       listeners |-> EmptyObj, delivered |-> <<>>, mutations |-> <<>> ]

----------------------------------------------------------------------------
(* ui/ExportControls.js: import *)

\* The URLs of the documents below that start with 'pmtiles://'.
StartsWithPmtiles(url) ==
  url \in { "pmtiles://assets/tiles/colorado_highways.pmtiles",
            "pmtiles://assets/tiles/colorado_rivers.pmtiles",
            "pmtiles://assets/tiles/colorado_rails.pmtiles",
            "pmtiles://assets/tiles/osm_points.pmtiles",
            "pmtiles://assets/tiles/co_roads.pmtiles" }

\* A `layers` value that is a JSON object keyed by layer id and not an array.
layersObject ==
  [ background |-> [ type |-> "background" ] ]

\* Array.isArray(v) for the values the input files hold.
IsArray(v) == v # layersObject

\* _validateStyleObject with a fault: the layers are not looked into.
validateStyleObjectTopLevelOnly(style) ==
  /\ Has(style, "version") /\ style.version # 0
  /\ Has(style, "sources")
  /\ Has(style, "layers") /\ IsArray(style.layers)
  /\ \E n \in DOMAIN style.sources :
        /\ Has(style.sources[n], "url")
        /\ StartsWithPmtiles(style.sources[n].url)

\* _validateStyleObject(style).isValid.  For a `layers` that is there but
\* no array, style.layers.forEach is no function and the call throws into
\* importStyleJSON's catch: the import fails as for isValid false.
validateStyleObject(style) ==
  /\ Has(style, "version") /\ style.version # 0
  /\ Has(style, "sources")
  /\ Has(style, "layers") /\ IsArray(style.layers)
  /\ \A i \in DOMAIN style.layers :
        /\ Has(style.layers[i], "id") /\ style.layers[i].id # ""
        /\ Has(style.layers[i], "type") /\ style.layers[i].type # ""
  /\ \E n \in DOMAIN style.sources :
        /\ Has(style.sources[n], "url")
        /\ StartsWithPmtiles(style.sources[n].url)

\* styleData.metadata?.['map-remix']?.[key], Undefined when absent.
MapRemixMeta(styleData, key) ==
  IF /\ Has(styleData, "metadata")
     /\ Has(styleData.metadata, "map-remix")
     /\ Has(styleData.metadata["map-remix"], key)
  THEN <<styleData.metadata["map-remix"][key]>>
  ELSE Undefined

\* importStyleJSON once the file is read: styleData is what JSON.parse
\* returned (a new object), or Null when the text does not parse.
importStyleJSON(s, styleData) ==
  LET s0 == emit(s, "importStarted", [ type |-> "json" ])
  IN IF styleData = Null \/ ~validateStyleObject(styleData)
     THEN \* throw; catch: addError, { success: false }
          [emit(s0, "errorAdded", [ type |-> "import" ])
             EXCEPT !.returned = FALSE]
     ELSE LET r  == FreshRef(s0.heap)
              vis == MapRemixMeta(styleData, "layerVisibility")
              thm == MapRemixMeta(styleData, "activeTheme")
              s1 == [s0 EXCEPT
                       !.heap = (r :> styleData) @@ @,
                       !.currentStyle = r,
                       !.layerVisibility =
                          IF vis # Undefined THEN Spread(@, vis[1]) ELSE @,
                       !.activeTheme =
                          IF thm # Undefined THEN thm[1] ELSE @]
              s2 == pushToHistory(
                      Applied(s1, "importCompleted", [ type |-> "json" ]))
              \* mapController.updateStyle(styleData): kept until the
              \* debounced setStyle runs
              s3 == [s2 EXCEPT !.held = <<r>>]
          IN [emit(s3, "importCompleted", [ type |-> "json" ])
                EXCEPT !.returned = TRUE]

\* ui/ThemeSelector.js _applyTheme: the lookup, then the store.
selectorApplyTheme(s, themeName) ==
  LET themeData == getTheme(themeName)
  IN IF themeData = Null
     THEN \* throw; catch: addError
          [emit(s, "errorAdded", [ type |-> "themeApplication" ])
             EXCEPT !.returned = FALSE]
     ELSE LET r == applyTheme(s, themeName, themeData)
          IN IF r.returned
             THEN \* the map controller is handed getCurrentStyle(), a copy
                  \* the store keeps no reference to
                  emit(r, "themeApplied", [ themeName |-> themeData.name ])
             ELSE emit(r, "errorAdded", [ type |-> "themeApplication" ])

----------------------------------------------------------------------------
(* Inputs. *)

\* A style file exported earlier from another data set: its own layers,
\* and the visibility flags and theme saved with it.
importedRoads ==
  [ version |-> 8,
    name |-> "Roads",
    metadata |-> ("map-remix" :>
       [ activeTheme |-> "retro",
         layerVisibility |-> [ co_roads |-> FALSE ] ]),
    sources |-> [ co_roads |-> [ type |-> "vector",
                    url |-> "pmtiles://assets/tiles/co_roads.pmtiles" ] ],
    layers |->
      << [ id |-> "background", type |-> "background" ],
         VectorLayer("co_roads", "line", "co_roads", "roads",
           [ visibility |-> "none" ],
           ("line-color" :> "#FF5722") @@ ("line-dasharray" :> <<"2", "1">>))
      >> ]

\* The default style edited by hand: the rivers hidden, no saved flags.
importedHidden ==
  [ defaultStyle EXCEPT !.layers[2].layout.visibility = "none" ]

\* A file without the version property.
importedNoVersion ==
  [k \in DOMAIN defaultStyle \ {"version"} |-> defaultStyle[k]]

\* Files without the sources, without the layers, with layers that are no
\* array, with a layer that has no id, with a layer that has no type.
importedNoSources ==
  [k \in DOMAIN defaultStyle \ {"sources"} |-> defaultStyle[k]]

importedNoLayers ==
  [k \in DOMAIN defaultStyle \ {"layers"} |-> defaultStyle[k]]

importedLayersObject ==
  [ defaultStyle EXCEPT !.layers = layersObject ]

importedNoLayerId ==
  [ defaultStyle EXCEPT !.layers[2] =
      [k \in DOMAIN @ \ {"id"} |-> @[k]] ]

importedNoLayerType ==
  [ defaultStyle EXCEPT !.layers[2] =
      [k \in DOMAIN @ \ {"type"} |-> @[k]] ]

\* A file that lists the rivers layer twice, the second time in black.
importedTwin ==
  LET rivers == defaultStyle.layers[2]
  IN [ defaultStyle EXCEPT !.layers =
         Append(@, [ rivers EXCEPT !.paint =
                       Put(rivers.paint, "line-color", "#000000") ]) ]

\* JSON.parse of the text read from each file; Null stands for the
\* SyntaxError of a text that is no JSON.
ParsedFile(file) ==
  CASE file = "roads.json"      -> importedRoads
    [] file = "hidden.json"     -> importedHidden
    [] file = "default.json"    -> defaultStyle
    [] file = "noversion.json"  -> importedNoVersion
    [] file = "nosources.json"  -> importedNoSources
    [] file = "nolayers.json"   -> importedNoLayers
    [] file = "layersobject.json" -> importedLayersObject
    [] file = "nolayerid.json"  -> importedNoLayerId
    [] file = "nolayertype.json" -> importedNoLayerType
    [] file = "twin.json"       -> importedTwin
    [] file = "garbled.json"    -> Null
    [] OTHER                    -> Null

\* The files that fail the structural validation.
InvalidFiles ==
  { "noversion.json", "nosources.json", "nolayers.json", "layersobject.json",
    "nolayerid.json", "nolayertype.json", "garbled.json" }

ImportFiles == { "roads.json", "hidden.json" } \cup InvalidFiles

UpdateInputs ==
  { <<"background", "background-color", "#000000">>,
    <<"co_roads", "line-color", "#00FF00">>,
    <<"no_such_layer", "line-color", "#00FF00">> }

ToggleInputs ==
  { <<"colorado_rivers", Undefined>>, <<"no_such_layer", <<FALSE>> >> }

ThemeInputs == { "night", "neon" }

\* Bundles handed to applyTheme by a caller of the store: a well-formed
\* one, and one whose second layer entry is null.
bluesBundle ==
  [ name |-> "Blues",
    background |-> (("background-color" :> "#e3f2fd")),
    layers |-> [ colorado_rivers |->
                   [ paint |-> (("line-color" :> "#0D47A1")) ] ] ]

brokenBundle ==
  [ name |-> "Broken",
    layers |-> [ colorado_rivers |->
                   [ paint |-> (("line-color" :> "#0D47A1")) ],
                 colorado_rails |-> Null ] ]

BundleOf(themeName) ==
  CASE themeName = "blues"  -> bluesBundle
    [] themeName = "broken" -> brokenBundle
    [] OTHER                -> getTheme(themeName)

BundleInputs == { "blues", "broken" }
BundleUpdateInputs ==
  { <<"colorado_rivers", "line-width", "5">>,
    <<"no_such_layer", "line-color", "#00FF00">> }
BundleImportFiles == { "noversion.json", "hidden.json" }

\* Counting edits: each writes the next number into one paint property of
\* the rivers, so that every snapshot differs from the one before it.
Blur(doc) ==
  IF Has(doc.layers[2].paint, "line-blur")
  THEN doc.layers[2].paint["line-blur"] ELSE 0

CountingInputs ==
  IF Blur(Doc(Store)) < MaxBlur
  THEN { <<"colorado_rivers", "line-blur", Blur(Doc(Store)) + 1>> }
  ELSE {}

\* Registrations: a subscriber that throws, registered ahead of one that
\* records; and subscribers that call the store from their callback,
\* registered ahead of one that records.
ThrowingSetup ==
  [ styleChanged |-> <<"thrower", "recorder">>,
    themeChanged |-> <<"thrower", "recorder">>,
    historyChanged |-> <<"thrower", "recorder">>,
    layerVisibilityChanged |-> <<"thrower", "recorder">>,
    loadingChanged |-> <<"recorder">> ]

ReentrantSetup ==
  [ styleChanged |-> <<"widener", "recorder">>,
    themeChanged |-> <<"overlay", "recorder">>,
    historyChanged |-> <<"recorder">>,
    loadingChanged |-> <<"recorder">> ]

SubscribedUpdateInputs ==
  { <<"colorado_rivers", "line-color", "#0D47A1">>,
    <<"colorado_rivers", "line-width", "5">>,
    <<"no_such_layer", "line-color", "#00FF00">> }
SubscribedToggleInputs == { <<"colorado_rivers", Undefined>> }
SubscribedThemeInputs == { "night", "neon" }

TwinImportFiles == { "twin.json", "roads.json" }

SharedUpdateInputs == { <<"colorado_rivers", "line-width", "5">> }
SharedToggleInputs == { <<"colorado_rivers", Undefined>> }
SharedImportFiles == { "hidden.json" }
SharedThemeInputs == { "night" }

\* Inputs that leave the content of the document as it is: a history of
\* maxHistorySize entries is then within reach of the search.
SameUpdateInputs == { <<"background", "background-color", "#f8f9fa">> }
SameToggleInputs == { <<"colorado_rivers", <<TRUE>> >> }
SameThemeInputs == { "default" }
SameImportFiles == { "default.json" }

----------------------------------------------------------------------------
(* The operations as steps. *)

\* A subscriber keeps the `style` of the payload it was given.
Retain(s, keep) == IF keep THEN [s EXCEPT !.held = <<s.currentStyle>>] ELSE s

CommitStore(s, op, pushed) ==
  LET c == Canon(s) IN
  /\ heap' = c.heap
  /\ currentStyle' = c.currentStyle
  /\ layerVisibility' = c.layerVisibility
  /\ styleHistory' = c.styleHistory
  /\ historyIndex' = c.historyIndex
  /\ activeTheme' = c.activeTheme
  /\ isLoading' = c.isLoading
  /\ held' = c.held
  /\ emitted' = c.emitted
  /\ last' = op @@ [ returned |-> s.returned, hadRedo |-> canRedo(Store),
                   wasFull |-> Len(styleHistory) = maxHistorySize ]
  /\ pushes' = IF pushed /\ pushes < MaxPushes THEN pushes + 1 ELSE pushes
  /\ listeners' = c.listeners
  /\ delivered' = c.delivered
  /\ mutations' = c.mutations

Commit(s, op, pushed) ==
  /\ CommitStore(s, op, pushed)
  /\ UNCHANGED timerVars
  /\ UNCHANGED appVars

\* The store after construction and the on(event, callback) calls of its
\* collaborators.
InitStore(setup) ==
  LET c == Canon(NewAppState) IN
  /\ heap = c.heap
  /\ currentStyle = c.currentStyle
  /\ layerVisibility = c.layerVisibility
  /\ styleHistory = c.styleHistory
  /\ historyIndex = c.historyIndex
  /\ activeTheme = c.activeTheme
  /\ isLoading = c.isLoading
  /\ held = c.held
  /\ emitted = <<>>
  /\ last = [ op |-> "constructor", returned |-> TRUE, hadRedo |-> FALSE,
              wasFull |-> FALSE ]
  /\ pushes = 0
  /\ listeners = setup
  /\ delivered = <<>>
  /\ mutations = <<>>
  /\ timers = {}
  /\ timeoutId = 0
  /\ now = 0
  /\ log = <<>>
  /\ map = defaultStyle
  /\ isExporting = FALSE
  /\ rendering = 0
  /\ downloaded = <<>>
  /\ destroyed = {}

Init == InitStore(NewAppState.listeners)

UpdateStyle(inputs, capped, keeps) ==
  \E in \in inputs, keep \in keeps :
    /\ capped => pushes < MaxPushes
    /\ LET r == updateStyle(Store, in[1], in[2], in[3]) IN
       Commit(Retain(r, keep /\ r.returned),
              [ op |-> "updateStyle", layerId |-> in[1],
                property |-> in[2], value |-> in[3] ],
              r.returned)

ToggleLayerVisibility(inputs) ==
  \E in \in inputs :
    Commit(toggleLayerVisibility(Store, in[1], in[2]),
           [ op |-> "toggleLayerVisibility", layerId |-> in[1],
             visible |-> in[2] ],
           FALSE)

SelectorApplyTheme(inputs, capped) ==
  \E themeName \in inputs :
    /\ capped => pushes < MaxPushes
    /\ LET r == selectorApplyTheme(Store, themeName) IN
       Commit(r, [ op |-> "selectorApplyTheme", themeName |-> themeName ],
              r.returned)

ApplyTheme(inputs, capped) ==
  \E themeName \in inputs :
    /\ capped => pushes < MaxPushes
    /\ LET r == applyTheme(Store, themeName, BundleOf(themeName)) IN
       Commit(r, [ op |-> "applyTheme", themeName |-> themeName ],
              r.returned)

Undo(keeps) ==
  \E keep \in keeps :
    LET r == undo(Store) IN
    Commit(Retain(r, keep /\ r.returned), [ op |-> "undo" ], FALSE)

Redo(keeps) ==
  \E keep \in keeps :
    LET r == redo(Store) IN
    Commit(Retain(r, keep /\ r.returned), [ op |-> "redo" ], FALSE)

ResetToDefault(capped, keeps) ==
  \E keep \in keeps :
    /\ capped => pushes < MaxPushes
    /\ Commit(Retain(resetToDefault(Store), keep),
              [ op |-> "resetToDefault" ], TRUE)

ImportStyleJSON(files, capped) ==
  \E file \in files :
    /\ capped => pushes < MaxPushes
    /\ LET r == importStyleJSON(Store, ParsedFile(file)) IN
       Commit(r, [ op |-> "importStyleJSON", file |-> file ], r.returned)

GetCurrentStyle ==
  Commit(getCurrentStyle(Store), [ op |-> "getCurrentStyle" ], FALSE)

\* The collaborator edits, in place, the document it holds: a paint value
\* of its first layer (style.layers[0].paint['background-color'] = ...).
editHeld(s) ==
  [s EXCEPT !.heap[s.held[1]].layers[1] =
     Put(@, "paint", Put(OrEmpty(@, "paint"), "background-color", "#ff00ff"))]

HolderEdit ==
  /\ held # <<>>
  /\ Commit(editHeld(Store), [ op |-> "holderEdit" ], FALSE)

Next ==
  \/ UpdateStyle(UpdateInputs, TRUE, {FALSE})
  \/ ToggleLayerVisibility(ToggleInputs)
  \/ SelectorApplyTheme(ThemeInputs, TRUE)
  \/ Undo({FALSE})
  \/ Redo({FALSE})
  \/ ResetToDefault(TRUE, {FALSE})
  \/ ImportStyleJSON(ImportFiles, TRUE)

Spec == Init /\ [][Next]_vars

\* The store with a collaborator that keeps the documents it is given (the
\* `style` of a payload, the imported styleData, a getCurrentStyle()
\* result) and edits them in place.
NextShared ==
  \/ UpdateStyle(SharedUpdateInputs, TRUE, {TRUE})
  \/ ToggleLayerVisibility(SharedToggleInputs)
  \/ Undo({TRUE})
  \/ Redo({TRUE})
  \/ ImportStyleJSON(SharedImportFiles, TRUE)
  \/ SelectorApplyTheme(SharedThemeInputs, TRUE)
  \/ GetCurrentStyle
  \/ HolderEdit

SpecShared == Init /\ [][NextShared]_vars

\* The same operations on inputs that keep the document's content, without
\* the cap on forward mutations: the history fills to maxHistorySize.
NextFull ==
  \/ UpdateStyle(SameUpdateInputs, FALSE, {FALSE})
  \/ ToggleLayerVisibility(SameToggleInputs)
  \/ SelectorApplyTheme(SameThemeInputs, FALSE)
  \/ Undo({FALSE})
  \/ Redo({FALSE})
  \/ ResetToDefault(FALSE, {FALSE})
  \/ ImportStyleJSON(SameImportFiles, FALSE)

SpecFull == Init /\ [][NextFull]_vars

\* The store driven through its own interface, with bundles that do not
\* come from the theme table.
NextBundle ==
  \/ ApplyTheme(BundleInputs, TRUE)
  \/ UpdateStyle(BundleUpdateInputs, TRUE, {FALSE})
  \/ ImportStyleJSON(BundleImportFiles, TRUE)
  \/ Undo({FALSE})
  \/ Redo({FALSE})

SpecBundle == Init /\ [][NextBundle]_vars

\* Edits that number the snapshots, with undo and redo: the history fills
\* to maxHistorySize with snapshots that all differ, and is pushed further.
NextEvict ==
  \/ UpdateStyle(CountingInputs, FALSE, {FALSE})
  \/ Undo({FALSE})
  \/ Redo({FALSE})

SpecEvict == Init /\ [][NextEvict]_vars

\* utils/debounce.js.  The delay in ticks (the application passes 100 ms).
delay == 2

\* What the closure of debounce(func, delay) and the timer queue hold.
Closure ==
  [ timers |-> timers, timeoutId |-> timeoutId, now |-> now, log |-> log ]

Calls(c) == Cardinality({ i \in DOMAIN c.log : c.log[i].kind = "call" })

\* clearTimeout(id): the timer with this id, if still pending, is dropped.
clearTimeout(c, id) == [c EXCEPT !.timers = { t \in @ : t.id # id }]

\* setTimeout(() => func.apply(context, args), ms): a new timer, and its
\* id.
setTimeout(c, args, ms) ==
  LET id == Calls(c)
  IN [ queue |-> c.timers \cup { [ id |-> id, args |-> args,
                                   due |-> c.now + ms ] },
       id |-> id ]

\* debounced(...args) with a fault: the previous timer is not cleared.
debouncedKeepsTimer(c, args) ==
  LET c1 == [ c EXCEPT !.log = Append(@, [ kind |-> "call", args |-> args,
                                          at |-> c.now ]) ]
      set == setTimeout(c1, args, delay)
  IN [ c1 EXCEPT !.timers = set.queue, !.timeoutId = set.id ]

\* debounced(...args): clearTimeout(timeoutId), then timeoutId =
\* setTimeout(...).
debounced(c, args) ==
  LET c1 == [ c EXCEPT !.log = Append(@, [ kind |-> "call", args |-> args,
                                          at |-> c.now ]) ]
      c2 == clearTimeout(c1, c1.timeoutId)
      set == setTimeout(c2, args, delay)
  IN [ c2 EXCEPT !.timers = set.queue, !.timeoutId = set.id ]

\* The timer callback: func.apply(context, args).
timerCallback(c, t) ==
  [ c EXCEPT !.timers = @ \ { t },
             !.log = Append(@, [ kind |-> "run", args |-> t.args,
                                 at |-> c.now ]) ]

\* The arguments of debouncedUpdate(layerId, property, value).
DebounceArgs ==
  { <<"colorado_rivers", "line-width", "3">>,
    <<"colorado_rivers", "line-width", "4">> }

SetClosure(c) ==
  /\ timers' = c.timers
  /\ timeoutId' = c.timeoutId
  /\ now' = c.now
  /\ log' = c.log
  /\ UNCHANGED storeVars
  /\ UNCHANGED appVars

\* A call of the debounced function, made while its timer can still come
\* due before the clock stops.
Debounced ==
  \E args \in DebounceArgs :
    /\ Calls(Closure) < MaxCalls
    /\ now + delay <= MaxTime
    /\ SetClosure(debounced(Closure, args))

\* The event loop runs a timer that is due; it may run it late.
TimerFires ==
  \E t \in timers :
    /\ t.due <= now
    /\ SetClosure(timerCallback(Closure, t))

Tick ==
  /\ now < MaxTime
  /\ SetClosure([ Closure EXCEPT !.now = @ + 1 ])

NextDebounce ==
  \/ Debounced
  \/ TimerFires
  \/ Tick

\* Time passes, and the event loop runs every timer that is due.
SpecDebounce ==
  /\ Init
  /\ [][NextDebounce]_vars
  /\ WF_vars(Tick)
  /\ WF_vars(TimerFires)

\* The store with files to import, one of which repeats a layer id.
NextTwin ==
  \/ UpdateStyle(UpdateInputs, TRUE, {FALSE})
  \/ ToggleLayerVisibility(ToggleInputs)
  \/ Undo({FALSE})
  \/ Redo({FALSE})
  \/ ImportStyleJSON(TwinImportFiles, TRUE)

SpecTwin == Init /\ [][NextTwin]_vars

\* The store with subscribers registered.
NextSubscribed ==
  \/ UpdateStyle(SubscribedUpdateInputs, TRUE, {FALSE})
  \/ ToggleLayerVisibility(SubscribedToggleInputs)
  \/ SelectorApplyTheme(SubscribedThemeInputs, TRUE)
  \/ Undo({FALSE})
  \/ Redo({FALSE})

SpecThrowing == InitStore(ThrowingSetup) /\ [][NextSubscribed]_vars

UpdateStyleReentrant(inputs) ==
  \E in \in inputs :
    /\ pushes < MaxPushes
    /\ LET r == updateStyleReentrant(Store, in[1], in[2], in[3]) IN
       Commit(r, [ op |-> "updateStyle", layerId |-> in[1],
                   property |-> in[2], value |-> in[3] ],
              r.returned)

ApplyThemeReentrant(inputs) ==
  \E themeName \in inputs :
    /\ pushes < MaxPushes
    /\ LET r == applyThemeReentrant(Store, themeName, getTheme(themeName)) IN
       Commit(r, [ op |-> "applyTheme", themeName |-> themeName ],
              r.returned)

\* The store with subscribers registered that call it from their callbacks.
NextReentrant ==
  \/ UpdateStyleReentrant(SubscribedUpdateInputs)
  \/ ToggleLayerVisibility(SubscribedToggleInputs)
  \/ ApplyThemeReentrant(SubscribedThemeInputs)
  \/ Undo({FALSE})
  \/ Redo({FALSE})

SpecReentrant == InitStore(ReentrantSetup) /\ [][NextReentrant]_vars

----------------------------------------------------------------------------
(* The map, and the components between the user and the store. *)

\* MapController.updatePaintProperty: map.setPaintProperty on the style
\* the map holds.  For a layer the style does not have, MapLibre reports
\* an error and the style stays as it is.
updatePaintProperty(style, layerId, property, value) ==
  LET i == FindLayer(style.layers, layerId)
  IN IF i = 0
     THEN style
     ELSE [style EXCEPT !.layers[i] =
             Put(@, "paint", Put(OrEmpty(@, "paint"), property, value))]

\* StyleControls._updateMapStyle, the func of debouncedUpdate.
updateMapStyle(style, args) ==
  updatePaintProperty(style, args[1], args[2], args[3])

\* StyleControls._handleStyleChange: the store first, then the debounced
\* update of the map, whatever the store returned.
handleStyleChange(s, c, layerId, property, value) ==
  [ store |-> updateStyle(s, layerId, property, value),
    closure |-> debounced(c, <<layerId, property, value>>) ]

SetTimers(c) ==
  /\ timers' = c.timers
  /\ timeoutId' = c.timeoutId
  /\ now' = c.now
  /\ log' = c.log

\* The slider and colour inputs of the style panel: two values of one
\* property, the same property of another layer, and the control of a
\* layer the document lacks.
StyleControlsInputs ==
  { <<"colorado_rivers", "line-width", "3">>,
    <<"colorado_rivers", "line-width", "4">>,
    <<"colorado_rails", "line-width", "3">>,
    <<"no_such_layer", "line-width", "3">> }

HandleStyleChange(inputs) ==
  \E in \in inputs :
    /\ Calls(Closure) < MaxCalls
    /\ now + delay <= MaxTime
    /\ LET r == handleStyleChange(Store, Closure, in[1], in[2], in[3]) IN
       /\ CommitStore(r.store,
                      [ op |-> "handleStyleChange", layerId |-> in[1],
                        property |-> in[2], value |-> in[3] ],
                      r.store.returned)
       /\ SetTimers(r.closure)
       /\ UNCHANGED appVars

\* The event loop runs debouncedUpdate's timer: _updateMapStyle(...args).
UpdateMapStyleFires ==
  \E t \in timers :
    /\ t.due <= now
    /\ SetTimers(timerCallback(Closure, t))
    /\ map' = updateMapStyle(map, t.args)
    /\ UNCHANGED storeVars
    /\ UNCHANGED <<isExporting, rendering, downloaded, destroyed>>

NextStyleControls ==
  \/ HandleStyleChange(StyleControlsInputs)
  \/ UpdateMapStyleFires
  \/ Tick

\* The style panel in use: time passes, and the event loop runs every
\* timer that is due.
SpecStyleControls ==
  /\ Init
  /\ [][NextStyleControls]_vars
  /\ WF_vars(Tick)
  /\ WF_vars(UpdateMapStyleFires)

\* MapController.toggleLayerVisibility: map.setLayoutProperty(layerId,
\* 'visibility', ...) on the style the map holds.  For a layer the style
\* does not have, MapLibre reports an error and the style stays as it is.
mapToggleLayerVisibility(style, layerId, visible) ==
  LET i == FindLayer(style.layers, layerId)
  IN IF i = 0
     THEN style
     ELSE [style EXCEPT !.layers[i] =
             Put(@, "layout",
                 Put(OrEmpty(@, "layout"), "visibility",
                     IF visible THEN "visible" ELSE "none"))]

\* MapController._updateStyleInternal, the func of debouncedStyleUpdate:
\* map.setStyle(newStyle).
updateStyleInternal(style, args) == args[1]

\* MapController.updateStyle(this.appState.getCurrentStyle()): the copy of
\* the current document goes to the debounced setStyle.
mapUpdateStyle(s, c) == debounced(c, << Doc(s) >>)

\* LayerControls._handleVisibilityChange: the store, then the map at once.
handleVisibilityChange(s, style, layerId, visible) ==
  [ store |-> toggleLayerVisibility(s, layerId, <<visible>>),
    map |-> mapToggleLayerVisibility(style, layerId, visible) ]

\* The checkboxes of the layer panel.
LayerControlsInputs ==
  { <<"colorado_rivers", FALSE>>, <<"colorado_rivers", TRUE>> }

MapThemeInputs == { "night" }

HandleVisibilityChange(inputs) ==
  \E in \in inputs :
    LET r == handleVisibilityChange(Store, map, in[1], in[2]) IN
    /\ CommitStore(r.store,
                   [ op |-> "handleVisibilityChange", layerId |-> in[1],
                     visible |-> in[2] ],
                   FALSE)
    /\ map' = r.map
    /\ UNCHANGED timerVars
    /\ UNCHANGED <<isExporting, rendering, downloaded, destroyed>>

\* A store operation of the application followed, when it succeeded, by
\* mapController.updateStyle(appState.getCurrentStyle()).
FullStyleUpdate(r, op, pushed) ==
  /\ Calls(Closure) < MaxCalls
  /\ now + delay <= MaxTime
  /\ CommitStore(r, op, pushed)
  /\ SetTimers(IF r.returned THEN mapUpdateStyle(r, Closure) ELSE Closure)
  /\ UNCHANGED appVars

\* ThemeSelector._applyTheme on a click.
ThemeClick(inputs) ==
  \E themeName \in inputs :
    /\ pushes < MaxPushes
    /\ LET r == selectorApplyTheme(Store, themeName) IN
       FullStyleUpdate(r, [ op |-> "themeClick", themeName |-> themeName ],
                       r.returned)

\* The keyboard shortcuts and the reset button of the application.
UndoKey == FullStyleUpdate(undo(Store), [ op |-> "undoKey" ], FALSE)

RedoKey == FullStyleUpdate(redo(Store), [ op |-> "redoKey" ], FALSE)

ResetClick ==
  /\ pushes < MaxPushes
  /\ FullStyleUpdate(resetToDefault(Store), [ op |-> "resetClick" ], TRUE)

\* The event loop runs debouncedStyleUpdate's timer.
UpdateStyleInternalFires ==
  \E t \in timers :
    /\ t.due <= now
    /\ SetTimers(timerCallback(Closure, t))
    /\ map' = updateStyleInternal(map, t.args)
    /\ UNCHANGED storeVars
    /\ UNCHANGED <<isExporting, rendering, downloaded, destroyed>>

NextMapSync ==
  \/ HandleVisibilityChange(LayerControlsInputs)
  \/ ThemeClick(MapThemeInputs)
  \/ UndoKey
  \/ RedoKey
  \/ ResetClick
  \/ UpdateStyleInternalFires
  \/ Tick

\* The layer panel and the full-style updates of the map.
SpecMapSync ==
  /\ Init
  /\ [][NextMapSync]_vars
  /\ WF_vars(Tick)
  /\ WF_vars(UpdateStyleInternalFires)

----------------------------------------------------------------------------
(* ui/ExportControls.js: export *)

\* The fields of ExportControls, the exports awaiting the map, and the
\* download folder.
Controls ==
  [ isExporting |-> isExporting, rendering |-> rendering,
    downloaded |-> downloaded ]

\* JSON.stringify and JSON.parse.  The documents hold strings, numbers,
\* booleans, arrays and plain objects only; for these the text determines
\* the value, and parsing it gives a new object with that value.  A text
\* is kept apart from the value it was written from: only JSONparse turns
\* it into an object again.
JSONstringify(value) == << "text", value >>

JSONparse(text) == IF text[1] = "text" THEN text[2] ELSE Null

\* The exportData of exportStyleJSON: the copy of the current document
\* with the 'map-remix' metadata added.
exportData(s) ==
  LET style == Doc(s)
  IN Put(style, "metadata",
         Put(OrEmpty(style, "metadata"), "map-remix",
             [ exportDate |-> "toISOString", version |-> "1.0.0",
               activeTheme |-> s.activeTheme,
               layerVisibility |-> s.layerVisibility ]))

\* What a call made during an export returns.
AlreadyInProgress ==
  [ success |-> FALSE, error |-> "Export already in progress" ]

\* What the browser does with the download and with the fallback window:
\* the file is saved; the download throws and the JSON is shown in a new
\* window (or the window is blocked, which the code takes for shown); the
\* download and the window both throw.
DownloadOutcomes == { "saved", "downloadThrows", "windowThrows" }

\* exportStyleJSON (it awaits nothing, and so runs to its end at once).
\* The result names the return value, whether the document passed the
\* validation, and whether a file was handed to the download.
exportStyleJSON(x, s, env) ==
  IF x.isExporting
  THEN [ controls |-> x, store |-> [s EXCEPT !.returned = FALSE],
         result |-> AlreadyInProgress, valid |-> FALSE, wrote |-> FALSE ]
  ELSE LET s1 == emit(s, "exportStarted", [ type |-> "json" ])
           valid == validateStyleObject(Doc(s1))
           file == [ text |-> JSONstringify(exportData(s1)),
                     layers |-> Doc(s1).layers,
                     activeTheme |-> s1.activeTheme,
                     layerVisibility |-> s1.layerVisibility ]
       IN IF valid /\ env = "saved"
          THEN [ controls |-> [x EXCEPT !.downloaded = << file >>,
                                        !.isExporting = FALSE],
                 store |-> [emit(s1, "exportCompleted", [ type |-> "json" ])
                              EXCEPT !.returned = TRUE],
                 result |-> [ success |-> TRUE, fallback |-> FALSE ],
                 valid |-> valid, wrote |-> TRUE ]
          ELSE IF env # "windowThrows"
          THEN \* catch: _showJSONFallback, { success: true, fallback: true }
               [ controls |-> [x EXCEPT !.isExporting = FALSE],
                 store |-> [emit(s1, "exportCompleted",
                                 [ type |-> "json-fallback" ])
                              EXCEPT !.returned = TRUE],
                 result |-> [ success |-> TRUE, fallback |-> TRUE ],
                 valid |-> valid, wrote |-> FALSE ]
          ELSE \* catch, and the fallback fails too: addError
               [ controls |-> [x EXCEPT !.isExporting = FALSE],
                 store |-> [emit(s1, "errorAdded", [ type |-> "export" ])
                              EXCEPT !.returned = FALSE],
                 result |-> [ success |-> FALSE,
                              error |-> IF valid THEN "download"
                                        ELSE "Invalid style" ],
                 valid |-> valid, wrote |-> FALSE ]

\* exportPNG with a fault: the test of isExporting stands inside the try,
\* so that the finally clause clears the flag of the running export.
exportPNGTestInsideTry(x, s) ==
  IF x.isExporting
  THEN [ controls |-> [x EXCEPT !.isExporting = FALSE],
         store |-> [s EXCEPT !.returned = FALSE],
         result |-> AlreadyInProgress ]
  ELSE [ controls |-> [x EXCEPT !.isExporting = TRUE, !.rendering = @ + 1],
         store |-> emit(s, "exportStarted", [ type |-> "png" ]),
         result |-> [ pending |-> TRUE ] ]

\* exportPNG up to its await of mapController.exportPNG(exportOptions).
exportPNG(x, s) ==
  IF x.isExporting
  THEN [ controls |-> x, store |-> [s EXCEPT !.returned = FALSE],
         result |-> AlreadyInProgress ]
  ELSE [ controls |-> [x EXCEPT !.isExporting = TRUE, !.rendering = @ + 1],
         store |-> emit(s, "exportStarted", [ type |-> "png" ]),
         result |-> [ pending |-> TRUE ] ]

\* What MapController.exportPNG settles with once the map is idle, and
\* what the download does then: a blob that is saved, a blob whose
\* download throws, no blob, a rejection.
RenderOutcomes == { "saved", "downloadThrows", "noBlob", "rejected" }

\* exportPNG from its await to its end.
exportPNGResumed(x, s, env) ==
  LET x1 == [x EXCEPT !.isExporting = FALSE, !.rendering = @ - 1]
  IN IF env = "saved"
     THEN [ controls |-> x1,
            store |-> [emit(s, "exportCompleted", [ type |-> "png" ])
                         EXCEPT !.returned = TRUE],
            result |-> [ success |-> TRUE ] ]
     ELSE [ controls |-> x1,
            store |-> [emit(s, "errorAdded", [ type |-> "export" ])
                         EXCEPT !.returned = FALSE],
            result |-> [ success |-> FALSE, error |-> env ] ]

SetControls(x) ==
  /\ isExporting' = x.isExporting
  /\ rendering' = x.rendering
  /\ downloaded' = x.downloaded
  /\ UNCHANGED <<map, destroyed>>
  /\ UNCHANGED timerVars

ExportStyleJSON ==
  \E env \in DownloadOutcomes :
    LET r == exportStyleJSON(Controls, Store, env) IN
    /\ CommitStore(r.store,
                   [ op |-> "exportStyleJSON", result |-> r.result,
                     valid |-> r.valid, wrote |-> r.wrote ],
                   FALSE)
    /\ SetControls(r.controls)

ExportPNG ==
  LET r == exportPNG(Controls, Store) IN
  /\ CommitStore(r.store, [ op |-> "exportPNG", result |-> r.result ], FALSE)
  /\ SetControls(r.controls)

\* The map becomes idle and the export that awaits it goes on.
ExportPNGResumed ==
  \E env \in RenderOutcomes :
    /\ rendering > 0
    /\ LET r == exportPNGResumed(Controls, Store, env) IN
       /\ CommitStore(r.store,
                      [ op |-> "exportPNGResumed", result |-> r.result ],
                      FALSE)
       /\ SetControls(r.controls)

\* The file exported last is dropped onto the application.
ImportExported ==
  /\ downloaded # <<>>
  /\ pushes < MaxPushes
  /\ LET r == importStyleJSON(Store, JSONparse(downloaded[1].text)) IN
     Commit(r, [ op |-> "importExported" ], r.returned)

ExportUpdateInputs == { <<"colorado_rivers", "line-width", "5">> }
ExportToggleInputs == { <<"colorado_rivers", Undefined>> }
ExportThemeInputs == { "night" }
ExportImportFiles == { "roads.json" }

NextExport ==
  \/ ExportStyleJSON
  \/ ExportPNG
  \/ ExportPNGResumed
  \/ ImportExported
  \/ UpdateStyle(ExportUpdateInputs, TRUE, {FALSE})
  \/ ToggleLayerVisibility(ExportToggleInputs)
  \/ SelectorApplyTheme(ExportThemeInputs, TRUE)
  \/ ImportStyleJSON(ExportImportFiles, TRUE)

\* The store with the export and import controls.
SpecExport == Init /\ [][NextExport]_vars

----------------------------------------------------------------------------
(* The components' registrations with the store, and destroy(). *)

\* The components that register callbacks, in the order in which the
\* application constructs them.
Components ==
  << "ErrorDisplay", "LayerControls", "StyleControls", "ThemeSelector" >>

\* The on(event, callback) calls of a component's _setupEventListeners.
\* Every callback is an arrow function written at the call, named here by
\* the component and the line of the call.
Registrations(component) ==
  CASE component = "LayerControls" ->
         << <<"layerVisibilityChanged", "LayerControls@31">>,
            <<"styleReset", "LayerControls@36">> >>
    [] component = "StyleControls" ->
         << <<"styleChanged", "StyleControls@37">>,
            <<"styleReset", "StyleControls@44">>,
            <<"themeChanged", "StyleControls@49">> >>
    [] component = "ThemeSelector" ->
         << <<"themeChanged", "ThemeSelector@31">>,
            <<"styleReset", "ThemeSelector@36">> >>
    [] component = "ErrorDisplay" ->
         << <<"errorAdded", "ErrorDisplay@27">>,
            <<"exportStarted", "ErrorDisplay@32">>,
            <<"exportCompleted", "ErrorDisplay@36">>,
            <<"importStarted", "ErrorDisplay@45">>,
            <<"importCompleted", "ErrorDisplay@49">>,
            <<"loadingChanged", "ErrorDisplay@55">> >>

\* The off(event, callback) calls of a component's destroy().  Every
\* callback is a method of the component, named here as the code names it.
Removals(component) ==
  CASE component = "LayerControls" ->
         << <<"layerVisibilityChanged", "LayerControls._updateControlState">>,
            <<"styleReset", "LayerControls._updateAllControls">> >>
    [] component = "StyleControls" ->
         << <<"styleChanged", "StyleControls._updateControlValues">>,
            <<"styleReset", "StyleControls._updateControlValues">>,
            <<"themeChanged", "StyleControls._updateControlValues">> >>
    [] component = "ThemeSelector" ->
         << <<"themeChanged", "ThemeSelector._updateActiveTheme">>,
            <<"styleReset", "ThemeSelector._updateActiveTheme">> >>
    [] component = "ErrorDisplay" ->
         << <<"errorAdded", "ErrorDisplay.showError">>,
            <<"exportStarted", "ErrorDisplay.showInfo">>,
            <<"exportCompleted", "ErrorDisplay.showSuccess">>,
            <<"importStarted", "ErrorDisplay.showInfo">>,
            <<"importCompleted", "ErrorDisplay.showSuccess">>,
            <<"loadingChanged", "ErrorDisplay.showInfo">> >>

\* AppState.on(event, callback)
on(ls, event, fn) ==
  Put(ls, event, Append(IF Has(ls, event) THEN ls[event] ELSE <<>>, fn))

\* listeners.indexOf(callback): the first position of this very function,
\* 0 (for -1) if it is not in the list.
indexOf(l, fn) ==
  IF \E i \in DOMAIN l : l[i] = fn
  THEN CHOOSE i \in DOMAIN l :
         l[i] = fn /\ \A j \in 1..(i - 1) : l[j] # fn
  ELSE 0

\* AppState.off(event, callback)
off(ls, event, fn) ==
  IF ~Has(ls, event)
  THEN ls
  ELSE LET l == ls[event]
           index == indexOf(l, fn)
       IN IF index > 0
          THEN Put(ls, event,
                   SubSeq(l, 1, index - 1) \o SubSeq(l, index + 1, Len(l)))
          ELSE ls

RECURSIVE onEach(_, _)
onEach(ls, calls) ==
  IF calls = <<>> THEN ls
  ELSE onEach(on(ls, calls[1][1], calls[1][2]), Tail(calls))

RECURSIVE offEach(_, _)
offEach(ls, calls) ==
  IF calls = <<>> THEN ls
  ELSE offEach(off(ls, calls[1][1], calls[1][2]), Tail(calls))

\* _setupEventListeners of a component.
setupEventListeners(ls, component) == onEach(ls, Registrations(component))

\* The listener part of destroy() of a component.
destroy(s, component) ==
  [s EXCEPT !.listeners = offEach(@, Removals(component))]

RECURSIVE constructEach(_, _)
constructEach(ls, components) ==
  IF components = <<>> THEN ls
  ELSE constructEach(setupEventListeners(ls, components[1]),
                     Tail(components))

\* The registrations once the application has constructed its components.
ComponentSetup == constructEach(NewAppState.listeners, Components)

Destroy ==
  \E i \in DOMAIN Components :
    /\ Components[i] \notin destroyed
    /\ CommitStore(destroy(Store, Components[i]),
                   [ op |-> "destroy", component |-> Components[i] ], FALSE)
    /\ destroyed' = destroyed \cup { Components[i] }
    /\ UNCHANGED <<map, isExporting, rendering, downloaded>>
    /\ UNCHANGED timerVars

DestroyUpdateInputs == { <<"colorado_rivers", "line-width", "5">> }
DestroyToggleInputs == { <<"colorado_rivers", Undefined>> }
DestroyThemeInputs == { "night" }
DestroyImportFiles == { "roads.json", "garbled.json" }

NextDestroy ==
  \/ Destroy
  \/ UpdateStyle(DestroyUpdateInputs, TRUE, {FALSE})
  \/ ToggleLayerVisibility(DestroyToggleInputs)
  \/ SelectorApplyTheme(DestroyThemeInputs, TRUE)
  \/ ResetToDefault(TRUE, {FALSE})
  \/ ImportStyleJSON(DestroyImportFiles, TRUE)

\* The store with the components of the application registered.
SpecDestroy == InitStore(ComponentSetup) /\ [][NextDestroy]_vars

----------------------------------------------------------------------------
(* State functions the properties read. *)

\* The store's current document, and the documents of the history.
CurDoc == heap[currentStyle]
Snaps == [i \in DOMAIN styleHistory |-> heap[styleHistory[i]]]

PushOps == { "updateStyle", "selectorApplyTheme", "applyTheme",
             "resetToDefault", "importStyleJSON" }

\* The last operation pushed a snapshot.
Pushed == last.op \in PushOps /\ last.returned

----------------------------------------------------------------------------
(* The claims. *)

\* C1: after any operation has returned the history holds at most
\* maxHistorySize snapshots, also after more than maxHistorySize pushes.
C1_HistoryBounded == Len(styleHistory) <= maxHistorySize

\* A push into a full history has happened.
C1_Witness ==
  /\ last.op = "updateStyle" /\ last.returned /\ last.wasFull
  /\ Len(styleHistory) = maxHistorySize

\* C2: the history is never empty and the cursor is a valid index into it.
C2_CursorValid ==
  /\ Len(styleHistory) >= 1
  /\ 0 <= historyIndex
  /\ historyIndex < Len(styleHistory)

\* An eviction has happened and the cursor is on the last entry.
C2_Witness ==
  /\ last.op = "resetToDefault" /\ last.wasFull
  /\ historyIndex = maxHistorySize - 1

\* C3: a forward mutation made while redo entries exist discards them all:
\* the history becomes the entries up to the old cursor, unchanged, plus the
\* new snapshot; the cursor is on it, canRedo() is false and redo() returns
\* false without changing the document.
C3_PushDiscardsRedo ==
  [][ (Pushed' /\ canRedo(Store)) =>
        /\ Len(styleHistory') = historyIndex + 2
        /\ historyIndex' = Len(styleHistory') - 1
        /\ \A i \in 1..(historyIndex + 1) : Snaps'[i] = Snaps[i]
        /\ ~canRedo(Store')
        /\ ~redo(Store').returned
        /\ Doc(redo(Store')) = CurDoc' ]_vars

\* A forward mutation was made while redo entries existed.
C3_Witness == Pushed /\ last.hadRedo /\ last.op = "updateStyle"

\* C4: wherever undo() succeeds, undo() then redo() leaves the current
\* document equal to the one before the undo().
C4_UndoRedoRestores ==
  canUndo(Store) => Doc(redo(undo(Store))) = CurDoc

\* C5: the current document equals the history snapshot at the cursor.
C5_CurrentIsSnapshot == CurDoc = Snaps[historyIndex + 1]

\* C6: for every layer of the current document with a layout visibility and
\* an entry in the Visibility Map, the flag is true exactly when the layout
\* says "visible".
C6_VisibilityConsistent ==
  \A i \in DOMAIN CurDoc.layers :
    LET layer == CurDoc.layers[i] IN
    ( /\ Has(layer, "layout")
      /\ Has(layer.layout, "visibility")
      /\ Has(layerVisibility, layer.id) )
    => ( layerVisibility[layer.id] <=> layer.layout.visibility = "visible" )

\* C7: a document handed out of the store is an independent copy: an
\* in-place edit by its holder never changes the store's current document,
\* and a store mutation that hands the holder nothing new never changes the
\* document the holder has.
C7_NoSharedDocument ==
  [][ /\ last'.op = "holderEdit" => CurDoc' = CurDoc
      /\ (last'.op = "toggleLayerVisibility" /\ held # <<>>)
           => heap'[held'[1]] = heap[held[1]] ]_vars

\* C8: whatever the caller does to the value getCurrentStyle() returned, the
\* store's document and the history snapshots stay as they were, and the
\* next getCurrentStyle() returns the document the first one returned.
C8_GetCurrentStyleIsolated ==
  LET got   == getCurrentStyle(Store)
      after == editHeld(got)
      again == getCurrentStyle(after)
  IN /\ got.heap[got.held[1]] = CurDoc
     /\ Doc(after) = CurDoc
     /\ Snapshots(after) = Snaps
     /\ again.heap[again.held[1]] = CurDoc

\* The caller has edited a copy it got: the copy differs, the store's
\* document does not carry the edit.
C8_Witness ==
  /\ last.op = "holderEdit"
  /\ held # <<>> /\ held[1] # currentStyle
  /\ heap[held[1]].layers[1].paint["background-color"] = "#ff00ff"
  /\ CurDoc.layers[1].paint["background-color"] # "#ff00ff"

\* C9: updateStyle with a layer id that is not in the current document
\* returns false and leaves the document, the Visibility Map, the history
\* and the cursor unchanged; it emits nothing (no historyChanged, no
\* styleChanged).
C9_UpdateUnknownLayer ==
  [][ (last'.op = "updateStyle"
        /\ FindLayer(CurDoc.layers, last'.layerId) = 0) =>
        /\ ~last'.returned
        /\ CurDoc' = CurDoc
        /\ layerVisibility' = layerVisibility
        /\ Snaps' = Snaps
        /\ historyIndex' = historyIndex
        /\ emitted' = <<>> ]_vars

\* updateStyle was called on an unknown layer after the document had been
\* changed.
C9_Witness ==
  /\ last.op = "updateStyle" /\ ~last.returned
  /\ last.layerId = "no_such_layer"
  /\ Len(styleHistory) > 1

\* C10: applying a theme whose name is not in the theme table reports
\* failure and leaves the document, the history, the cursor, the active
\* theme and the Visibility Map as they were.
C10_UnknownTheme ==
  [][ (last'.op = "selectorApplyTheme" /\ last'.themeName \notin DOMAIN themes)
        =>
        /\ ~last'.returned
        /\ CurDoc' = CurDoc
        /\ Snaps' = Snaps
        /\ historyIndex' = historyIndex
        /\ activeTheme' = activeTheme
        /\ layerVisibility' = layerVisibility
        /\ isLoading' = isLoading ]_vars

\* An unknown theme was requested while another theme was active.
C10_Witness ==
  /\ last.op = "selectorApplyTheme" /\ ~last.returned
  /\ last.themeName = "neon"
  /\ activeTheme = "night"

\* The paint mapping of a layer ({} when it has none), the rest of the
\* layer, and the rest of a document.
PaintOf(layer) == OrEmpty(layer, "paint")
WithoutPaint(layer) == [k \in DOMAIN layer \ {"paint"} |-> layer[k]]
WithoutLayers(doc) == [k \in DOMAIN doc \ {"layers"} |-> doc[k]]

\* Whether the bundle names the layer id, and the paint keys it gives it.
BundleNames(bundle, id) ==
  \/ id = "background" /\ Has(bundle, "background")
  \/ /\ Has(bundle, "layers") /\ id \in DOMAIN bundle.layers
     /\ Has(bundle.layers[id], "paint")
Overrides(bundle, id) ==
  IF id = "background" /\ Has(bundle, "background")
  THEN bundle.background
  ELSE bundle.layers[id].paint

\* C11: a successful applyTheme changes the document only by a shallow
\* merge of paint keys: a layer the bundle names gets the bundle's value
\* for each paint key the bundle gives and keeps every other paint key, the
\* background layer likewise; every other layer, every layout, the sources
\* and the layer order stay, and no layer is created.
C11_ThemeMergesPaint ==
  [][ (last'.op = "selectorApplyTheme" /\ last'.returned) =>
        LET bundle == themes[last'.themeName]
            old == CurDoc.layers
            new == CurDoc'.layers
        IN /\ WithoutLayers(CurDoc') = WithoutLayers(CurDoc)
           /\ Len(new) = Len(old)
           /\ \A i \in DOMAIN old :
                IF BundleNames(bundle, old[i].id)
                THEN LET ov == Overrides(bundle, old[i].id) IN
                     /\ WithoutPaint(new[i]) = WithoutPaint(old[i])
                     /\ DOMAIN PaintOf(new[i])
                          = DOMAIN PaintOf(old[i]) \cup DOMAIN ov
                     /\ \A k \in DOMAIN ov : new[i].paint[k] = ov[k]
                     /\ \A k \in DOMAIN PaintOf(old[i]) \ DOMAIN ov :
                          new[i].paint[k] = old[i].paint[k]
                ELSE new[i] = old[i] ]_vars

\* The night theme was applied to a document that has one of its layers:
\* the layer took the theme's colour and kept its dash pattern.
C11_Witness ==
  /\ last.op = "selectorApplyTheme" /\ last.returned
  /\ last.themeName = "night"
  /\ \E i \in DOMAIN CurDoc.layers :
        /\ CurDoc.layers[i].id = "co_roads"
        /\ CurDoc.layers[i].paint["line-color"] = "#00FFFF"
        /\ CurDoc.layers[i].paint["line-dasharray"] = <<"2", "1">>

\* A theme was applied through the selector and the store reported success.
ThemeApplied == last.op = "selectorApplyTheme" /\ last.returned

\* How often the last operation emitted the event.
EmitCount(event) == Cardinality({i \in DOMAIN emitted : emitted[i] = event})

\* C12 as stated: a successful applyTheme pushes exactly one snapshot - the
\* history length grows by one, or stays at the bound with one eviction -
\* and that snapshot contains the fully merged document.
C12_ThemeGrowsHistoryByOne ==
  [][ ThemeApplied' =>
        /\ \/ Len(styleHistory') = Len(styleHistory) + 1
           \/ /\ Len(styleHistory) = maxHistorySize
              /\ Len(styleHistory') = maxHistorySize
        /\ Snaps'[historyIndex' + 1] = CurDoc' ]_vars

\* C12 amended: a successful applyTheme pushes exactly one snapshot onto
\* the entries up to the cursor (redo entries are discarded): the history
\* length becomes the cursor position plus two, or the bound after one
\* eviction; the entries up to the cursor stay, the cursor is on the new
\* snapshot, which contains the fully merged document, and the history
\* changed once.
C12_ThemeOneSnapshot ==
  [][ ThemeApplied' =>
        /\ IF historyIndex + 2 <= maxHistorySize
           THEN /\ Len(styleHistory') = historyIndex + 2
                /\ \A i \in 1..(historyIndex + 1) : Snaps'[i] = Snaps[i]
           ELSE /\ Len(styleHistory') = maxHistorySize
                /\ \A i \in 1..(maxHistorySize - 1) : Snaps'[i] = Snaps[i + 1]
        /\ historyIndex' = Len(styleHistory') - 1
        /\ Snaps'[historyIndex' + 1] = CurDoc'
        /\ EmitCount("historyChanged")' = 1 ]_vars

\* A theme that changes two layers of the document (co_roads and the
\* background) was applied: the history has one entry more, the merged
\* document.
C12_Witness ==
  /\ ThemeApplied /\ last.themeName = "night"
  /\ Len(styleHistory) = 3 /\ historyIndex = 2
  /\ \E i \in DOMAIN Snaps[3].layers :
        /\ Snaps[3].layers[i].id = "co_roads"
        /\ Snaps[3].layers[i].paint["line-color"] = "#00FFFF"
  /\ Snaps[3].layers[1].paint["background-color"] = "#1a1a1a"
  /\ Snaps[2].layers[1] = [ id |-> "background", type |-> "background" ]

\* The paint mappings of a document's layers, in layer order.
Paints(doc) == [i \in DOMAIN doc.layers |-> PaintOf(doc.layers[i])]

\* C13: after a successful applyTheme followed by undo(), the active theme
\* identifier is again the value it had before the theme was applied, and
\* every layer's paint mapping equals the pre-apply snapshot.
C13_ThemeUndoReverts ==
  \A themeName \in DOMAIN themes :
    LET applied == applyTheme(Store, themeName, getTheme(themeName))
        undone  == undo(applied)
    IN applied.returned =>
         /\ undone.returned
         /\ undone.activeTheme = activeTheme
         /\ Paints(Doc(undone)) = Paints(Snaps[historyIndex + 1])

\* The operations that report failure, and the last operation having failed.
FailingOps == { "updateStyle", "applyTheme", "selectorApplyTheme",
                "importStyleJSON" }
Failed == last.op \in FailingOps /\ ~last.returned

\* C14: a store operation that fails (updateStyle, applyTheme or the
\* import; also an applyTheme that fails part-way through the bundle's
\* layers) leaves the current document, the history, the cursor, the active
\* theme and the Visibility Map exactly as they were before the call.
C14_FailureChangesNothing ==
  [][ Failed' =>
        /\ CurDoc' = CurDoc
        /\ Snaps' = Snaps
        /\ historyIndex' = historyIndex
        /\ activeTheme' = activeTheme
        /\ layerVisibility' = layerVisibility ]_vars

\* C15: a push into a history that holds maxHistorySize snapshots with the
\* cursor at the end removes exactly the oldest snapshot, keeps the others
\* in their order, and leaves the length at maxHistorySize with the cursor
\* on the new snapshot, the last.
C15_PushAtBoundEvictsOldest ==
  [][ ( /\ Pushed'
        /\ Len(styleHistory) = maxHistorySize
        /\ historyIndex = maxHistorySize - 1 ) =>
        /\ Len(styleHistory') = maxHistorySize
        /\ historyIndex' = maxHistorySize - 1
        /\ \A i \in 1..(maxHistorySize - 1) : Snaps'[i] = Snaps[i + 1]
        /\ Snaps'[maxHistorySize] = CurDoc'
        /\ \A i \in DOMAIN Snaps' : Snaps'[i] # Snaps[1] ]_vars

\* The constructor's snapshot and fifty numbered edits make 51 pushes: the
\* history holds the edits 1 to 50, the constructor's snapshot is gone.
C15_Witness ==
  /\ last.op = "updateStyle" /\ last.returned /\ last.wasFull
  /\ Len(styleHistory) = maxHistorySize
  /\ historyIndex = maxHistorySize - 1
  /\ \A i \in DOMAIN Snaps : Blur(Snaps[i]) = i

\* The current document is an object of its own, not one of the history's.
CurrentIsCopy == \A i \in DOMAIN styleHistory : styleHistory[i] # currentStyle

\* C16: undo() and redo() never change the history.  undo() at cursor 0
\* and redo() at the last index return false and change nothing (document,
\* cursor, history) and notify nobody; otherwise they move the cursor by
\* exactly one (down for undo, up for redo) and set the current document
\* to a copy of the snapshot at the new cursor.
C16_UndoRedoKeepHistory ==
  [][ /\ last'.op \in {"undo", "redo"} => Snaps' = Snaps
      /\ ( \/ last'.op = "undo" /\ historyIndex = 0
           \/ last'.op = "redo" /\ historyIndex = Len(styleHistory) - 1 )
         => /\ ~last'.returned
            /\ CurDoc' = CurDoc
            /\ historyIndex' = historyIndex
            /\ emitted' = <<>>
      /\ (last'.op = "undo" /\ historyIndex > 0)
         => /\ last'.returned
            /\ historyIndex' = historyIndex - 1
            /\ CurDoc' = Snaps[historyIndex' + 1]
            /\ CurrentIsCopy'
      /\ (last'.op = "redo" /\ historyIndex < Len(styleHistory) - 1)
         => /\ last'.returned
            /\ historyIndex' = historyIndex + 1
            /\ CurDoc' = Snaps[historyIndex' + 1]
            /\ CurrentIsCopy' ]_vars

\* After two edits and two undos, a redo put the cursor on the middle
\* snapshot of three.
C16_Witness ==
  /\ last.op = "redo" /\ last.returned
  /\ Len(styleHistory) = 3 /\ historyIndex = 1
  /\ CurDoc = Snaps[2] /\ Snaps[2] # Snaps[1] /\ Snaps[3] # Snaps[2]

\* C17: from any reachable state, resetToDefault() makes the current
\* document equal to the original default Style Document (which no earlier
\* mutation has touched), sets every Visibility Map entry to its configured
\* default and sets the active theme to 'default'.
C17_ResetRestoresDefault ==
  [][ last'.op = "resetToDefault" =>
        /\ heap'[DefaultRef] = defaultStyle
        /\ CurDoc' = defaultStyle
        /\ layerVisibility' =
             [id \in DOMAIN layerConfig |-> layerConfig[id].defaultVisible]
        /\ activeTheme' = "default" ]_vars

\* The store was reset after an import that had replaced the document, the
\* theme and visibility flags.
C17_Witness ==
  /\ last.op = "resetToDefault"
  /\ Len(styleHistory) = 3
  /\ Snaps[2] = importedRoads
  /\ Snaps[3] = defaultStyle

\* C18: resetToDefault() is a forward history entry that undo can revert:
\* it pushes exactly one snapshot onto the entries up to the cursor, and
\* one undo() directly after it returns the store to the pre-reset state:
\* the current document, the Visibility Map and the active theme are those
\* of before the reset.
C18_ResetUndoReverts ==
  LET reset  == resetToDefault(Store)
      undone == undo(reset)
  IN /\ Len(reset.styleHistory)
          = IF historyIndex + 2 <= maxHistorySize
            THEN historyIndex + 2 ELSE maxHistorySize
     /\ reset.historyIndex = Len(reset.styleHistory) - 1
     /\ undone.returned
     /\ Doc(undone) = CurDoc
     /\ undone.layerVisibility = layerVisibility
     /\ undone.activeTheme = activeTheme

\* layer.layout.visibility, "unset" when the layer has none.
VisibilityOf(layer) ==
  IF Has(layer, "layout") /\ Has(layer.layout, "visibility")
  THEN layer.layout.visibility ELSE "unset"

\* The values of the `visible` argument: omitted, true, false.
VisibleArgs == { Undefined, <<TRUE>>, <<FALSE>> }

\* C19: toggleLayerVisibility(layerId, visible) on a layer of the current
\* document sets layerVisibility[layerId] and the layer's layout.visibility
\* ('visible' or 'none') in the same step and returns the new flag; an
\* omitted `visible` toggles the current flag; the flag and the layout of
\* every other layer stay as they are.
C19_ToggleSetsBoth ==
  \A i \in DOMAIN CurDoc.layers, visible \in VisibleArgs :
    LET id   == CurDoc.layers[i].id
        t    == toggleLayerVisibility(Store, id, visible)
        flag == IF visible = Undefined
                THEN ~(Has(layerVisibility, id) /\ layerVisibility[id])
                ELSE visible[1]
    IN /\ t.returned = flag
       /\ DOMAIN t.layerVisibility = DOMAIN layerVisibility \cup {id}
       /\ t.layerVisibility[id] = flag
       /\ VisibilityOf(Doc(t).layers[i])
            = IF flag THEN "visible" ELSE "none"
       /\ \A k \in DOMAIN layerVisibility \ {id} :
            t.layerVisibility[k] = layerVisibility[k]
       /\ Len(Doc(t).layers) = Len(CurDoc.layers)
       /\ \A j \in DOMAIN CurDoc.layers \ {i} :
            Doc(t).layers[j] = CurDoc.layers[j]

\* The rivers were toggled off: flag false, layout 'none', the rails and
\* the highways still shown.
C19_Witness ==
  /\ last.op = "toggleLayerVisibility" /\ last.layerId = "colorado_rivers"
  /\ ~last.returned
  /\ ~layerVisibility["colorado_rivers"]
  /\ CurDoc.layers[2].id = "colorado_rivers"
  /\ CurDoc.layers[2].layout.visibility = "none"
  /\ layerVisibility["colorado_rails"]
  /\ CurDoc.layers[3].layout.visibility = "visible"
  /\ CurDoc.layers[4].layout.visibility = "visible"

\* C20: toggleLayerVisibility with a layer id that is not in the current
\* document leaves the document and the history unchanged and still sets
\* the Visibility Map entry for that id.
C20_ToggleUnknownLayer ==
  [][ ( /\ last'.op = "toggleLayerVisibility"
        /\ FindLayer(CurDoc.layers, last'.layerId) = 0 ) =>
        /\ CurDoc' = CurDoc
        /\ Snaps' = Snaps
        /\ historyIndex' = historyIndex
        /\ Has(layerVisibility', last'.layerId)
        /\ layerVisibility'[last'.layerId] = last'.returned
        /\ last'.visible # Undefined => last'.returned = last'.visible[1] ]_vars

\* An unknown layer was switched off: the Visibility Map has an entry for
\* it, the document has no such layer.
C20_Witness ==
  /\ last.op = "toggleLayerVisibility" /\ last.layerId = "no_such_layer"
  /\ Has(layerVisibility, "no_such_layer")
  /\ ~layerVisibility["no_such_layer"]
  /\ FindLayer(CurDoc.layers, "no_such_layer") = 0

\* How often the last operation invoked the subscriber for the event.
DeliveryCount(sub, event) ==
  Cardinality({i \in DOMAIN delivered :
                 delivered[i].to = sub /\ delivered[i].event = event})

\* The store as it would be had the throwing subscriber been one that
\* returns normally.
Quiet(s) ==
  [s EXCEPT !.listeners =
     [e \in DOMAIN s.listeners |->
        [k \in DOMAIN s.listeners[e] |->
           IF s.listeners[e][k] = "thrower" THEN "recorder"
           ELSE s.listeners[e][k]]]]

\* What an operation leaves behind: its result and the store's state.
Outcome(s) ==
  [ returned |-> s.returned, document |-> Doc(s),
    history |-> Snapshots(s), cursor |-> s.historyIndex,
    theme |-> s.activeTheme, visibility |-> s.layerVisibility,
    emitted |-> s.emitted ]

\* C21: a subscriber that throws during notification is isolated: every
\* subscriber registered for an event is invoked once for each time the
\* event was emitted, also those registered after the one that throws; and
\* each operation returns the same result and leaves the same document,
\* history, cursor, theme and visibility as if the subscriber had not
\* thrown.
C21_ThrowingSubscriberIsolated ==
  /\ \A e \in DOMAIN listeners : \A k \in DOMAIN listeners[e] :
        DeliveryCount(listeners[e][k], e) = EmitCount(e)
  /\ \A in \in SubscribedUpdateInputs :
        Outcome(updateStyle(Store, in[1], in[2], in[3]))
          = Outcome(updateStyle(Quiet(Store), in[1], in[2], in[3]))
  /\ \A themeName \in SubscribedThemeInputs :
        Outcome(selectorApplyTheme(Store, themeName))
          = Outcome(selectorApplyTheme(Quiet(Store), themeName))
  /\ \A in \in SubscribedToggleInputs :
        Outcome(toggleLayerVisibility(Store, in[1], in[2]))
          = Outcome(toggleLayerVisibility(Quiet(Store), in[1], in[2]))
  /\ Outcome(undo(Store)) = Outcome(undo(Quiet(Store)))
  /\ Outcome(redo(Store)) = Outcome(redo(Quiet(Store)))

\* A paint update whose first styleChanged subscriber threw: the update
\* succeeded and the subscriber registered after it was still invoked.
C21_Witness ==
  /\ last.op = "updateStyle" /\ last.returned
  /\ listeners["styleChanged"] = <<"thrower", "recorder">>
  /\ \E i, j \in DOMAIN delivered :
        /\ i < j
        /\ delivered[i].to = "thrower" /\ delivered[i].event = "styleChanged"
        /\ delivered[j].to = "recorder" /\ delivered[j].event = "styleChanged"
        /\ delivered[j].data.property = last.property
  /\ CurDoc.layers[2].paint[last.property] = last.value

\* The notifications a subscriber was given, in the order it was given
\* them, for the events that announce a mutation.
Received(sub) ==
  LET mine == SelectSeq(delivered, LAMBDA d :
                d.to = sub /\ \E k \in DOMAIN mutations :
                                mutations[k].event = d.event)
  IN [k \in DOMAIN mine |-> [ event |-> mine[k].event, data |-> mine[k].data ]]

\* The mutations applied to the store, in the order they were applied,
\* that a subscriber is registered to hear of.
Owed(sub) ==
  SelectSeq(mutations, LAMBDA m :
    Has(listeners, m.event)
      /\ \E k \in DOMAIN listeners[m.event] : listeners[m.event][k] = sub)

\* C22: notifications are delivered in mutation order: every subscriber is
\* given the change notifications in the order in which the mutations were
\* applied to the store, also when several subscribers are registered and
\* one of them calls a store mutation from inside its callback.
C22_NotificationsInMutationOrder ==
  \A sub \in Subscribers : Received(sub) = Owed(sub)

\* The places in the deliveries where loadingChanged announced the flag v.
LoadingAt(v) ==
  { i \in DOMAIN delivered :
      delivered[i].event = "loadingChanged" /\ delivered[i].data.isLoading = v }

\* C23: isLoading is true exactly while an applyTheme is in progress: from
\* the loadingChanged that announces it, through the history push and the
\* themeChanged notification, a subscriber reads it as true; it is false
\* again once applyTheme has finished, on success and on failure alike, and
\* whenever no applyTheme is executing.
C23_BusyExactlyWhileApplying ==
  /\ ~isLoading
  /\ \A b \in BundleInputs : ~applyTheme(Store, b, BundleOf(b)).isLoading
  /\ \A i \in DOMAIN delivered :
        delivered[i].isLoading
          <=> /\ \E a \in LoadingAt(TRUE) : a <= i
              /\ \E z \in LoadingAt(FALSE) : i < z

\* C24: a theme application requested while another is in progress is
\* rejected or queued, never run nested inside the first: between two
\* announcements that the store is busy there is one that it is idle again,
\* and no theme application starts after the first has announced its
\* themeChanged and before it has cleared the flag.
C24_NoNestedThemeApplication ==
  /\ \A a, b \in LoadingAt(TRUE) :
        a < b => \E z \in LoadingAt(FALSE) : a < z /\ z < b
  /\ \A i, j \in DOMAIN delivered :
        (i < j /\ delivered[i].event = "themeChanged"
               /\ delivered[j].event = "themeChanged")
          => delivered[i].data.themeName = delivered[j].data.themeName

\* C25: an imported document that fails the structural validation (no
\* version, no sources, no layers, layers that are no array, a layer
\* without id or without type, a text that is no JSON) is rejected before
\* it reaches the history: the import reports failure, and the current
\* document, the history, the cursor, the Visibility Map and the active
\* theme are unchanged.
C25_InvalidImportRejected ==
  \A file \in InvalidFiles :
    LET r == importStyleJSON(Store, ParsedFile(file))
    IN /\ ~r.returned
       /\ r.currentStyle = currentStyle
       /\ Doc(r) = CurDoc
       /\ r.styleHistory = styleHistory
       /\ Snapshots(r) = Snaps
       /\ r.historyIndex = historyIndex
       /\ r.layerVisibility = layerVisibility
       /\ r.activeTheme = activeTheme
       /\ "historyChanged" \notin { r.emitted[i] : i \in DOMAIN r.emitted }

\* The import of a file with a layer that has no id has failed, on a store
\* that had been edited before.
C25_Witness ==
  /\ last.op = "importStyleJSON" /\ last.file = "nolayerid.json"
  /\ ~last.returned
  /\ Len(styleHistory) > 1
  /\ emitted = <<"importStarted", "errorAdded">>

\* The files that pass the structural validation.
ValidFiles == { "roads.json", "hidden.json", "default.json" }

\* C26: a successful import replaces the whole current document and the
\* whole Visibility Map by those of the imported document (the flags saved
\* in the file, when it has any), pushes exactly one snapshot onto the
\* entries up to the cursor, and one undo() directly afterwards restores
\* the pre-import document.
C26_ImportReplacesWholesale ==
  \A file \in ValidFiles :
    LET styleData == ParsedFile(file)
        r   == importStyleJSON(Store, styleData)
        vis == MapRemixMeta(styleData, "layerVisibility")
        u   == undo(r)
        kept == SubSeq(Snaps, 1, historyIndex + 1) \o <<styleData>>
    IN /\ r.returned
       /\ Doc(r) = styleData
       /\ vis # Undefined => r.layerVisibility = vis[1]
       /\ Snapshots(r) = IF Len(kept) > maxHistorySize THEN Tail(kept)
                         ELSE kept
       /\ r.historyIndex = Len(r.styleHistory) - 1
       /\ u.returned
       /\ Doc(u) = CurDoc

\* The layer ids of a document are pairwise distinct.
UniqueIds(doc) ==
  \A i, j \in DOMAIN doc.layers :
    i # j => doc.layers[i].id # doc.layers[j].id

\* C27: layer ids are unique at all times: in the current document and in
\* every history snapshot the layer ids are pairwise distinct, and the
\* import of a document with two layers of the same id is rejected and
\* changes nothing.
C27_LayerIdsUnique ==
  /\ UniqueIds(CurDoc)
  /\ \A k \in DOMAIN Snaps : UniqueIds(Snaps[k])
  /\ \A file \in TwinImportFiles :
        ~UniqueIds(ParsedFile(file)) =>
          LET r == importStyleJSON(Store, ParsedFile(file))
          IN /\ ~r.returned
             /\ Doc(r) = CurDoc
             /\ Snapshots(r) = Snaps

\* No object is in the history twice, and no history entry is the current
\* document or a document a caller holds.
NoAliasing ==
  /\ \A i, j \in DOMAIN styleHistory :
        i # j => styleHistory[i] # styleHistory[j]
  /\ \A i \in DOMAIN styleHistory :
        /\ styleHistory[i] # currentStyle
        /\ \A h \in DOMAIN held : styleHistory[i] # held[h]

\* The snapshots that stay in the history over a step: all of them, or for
\* a push the entries up to the cursor, less the oldest if it is evicted.
Staying ==
  IF last'.op \in PushOps /\ last'.returned
  THEN LET kept == SubSeq(Snaps, 1, historyIndex + 1)
       IN IF Len(kept) + 1 > maxHistorySize THEN Tail(kept) ELSE kept
  ELSE Snaps

\* C28: history snapshots are deep copies that alias nothing: over every
\* step (paint update, visibility toggle, theme merge, import, undo, redo,
\* an edit of a document obtained from the store) the snapshots that stay
\* in the history keep their place and their content, and no two entries,
\* nor an entry and the current or a handed-out document, are one object.
C28_SnapshotsNeverChange ==
  [][ /\ NoAliasing'
      /\ SubSeq(Snaps', 1, Len(Staying)) = Staying ]_vars

\* The holder of the store's own current document has edited it: the
\* current document carries the edit, no snapshot does.
C28_Witness ==
  /\ last.op = "holderEdit"
  /\ held # <<>> /\ held[1] = currentStyle
  /\ Len(styleHistory) > 1
  /\ CurDoc.layers[1].paint["background-color"] = "#ff00ff"
  /\ \A k \in DOMAIN Snaps :
        Snaps[k].layers[1].paint["background-color"] # "#ff00ff"

\* The history length after each step of a push of the current document.
StepLengths == [k \in 1..3 |-> Len(pushSteps(Store)[k].styleHistory)]

\* C29 as stated: within a push the history length does not exceed the
\* bound at any intermediate step.
C29_NeverExceededWithinPush ==
  \A k \in 1..3 : StepLengths[k] <= maxHistorySize

\* C29, amended: within a push the steps run in the order truncate, append,
\* evict: first the redo entries are dropped, then the copy of the current
\* document is appended to what is left, then the oldest entry is removed
\* if the length is over the bound.  The length is over the bound only
\* between the append to a full history and the eviction, and then by one;
\* it is within the bound after the truncation, after the eviction and in
\* the historyChanged notification.
C29_PushStepsInOrder ==
  LET steps == pushSteps(Store)
      kept  == SubSeq(Snaps, 1, historyIndex + 1)
  IN /\ Snapshots(steps[1]) = kept
     /\ Snapshots(steps[2]) = kept \o <<CurDoc>>
     /\ Snapshots(steps[3]) = IF Len(kept) = maxHistorySize
                              THEN Tail(kept) \o <<CurDoc>>
                              ELSE kept \o <<CurDoc>>
     /\ StepLengths[1] <= maxHistorySize
     /\ StepLengths[2] <= maxHistorySize + 1
     /\ StepLengths[2] > maxHistorySize <=> historyIndex = maxHistorySize - 1
     /\ StepLengths[3] <= maxHistorySize
     /\ pushToHistory(Store).styleHistory = steps[3].styleHistory
     /\ pushToHistory(Store).historyIndex = StepLengths[3] - 1

\* A push onto a full history with the cursor at its end has run: the
\* append made 51 entries, the eviction 50.
C29_Witness ==
  /\ Pushed /\ last.wasFull /\ ~last.hadRedo
  /\ Len(styleHistory) = maxHistorySize
  /\ historyIndex = maxHistorySize - 1
  /\ StepLengths[2] = maxHistorySize + 1

\* Every run of func comes directly after the call it serves, with no call
\* and no run between: it has that call's arguments and comes no earlier
\* than delay after it.
RunsServeLastCall ==
  \A p \in DOMAIN log :
    log[p].kind = "run" =>
      /\ p > 1
      /\ log[p - 1].kind = "call"
      /\ log[p].args = log[p - 1].args
      /\ log[p].at >= log[p - 1].at + delay

\* The last call has not been served by a run.
Unserved == log # <<>> /\ log[Len(log)].kind = "call"

\* C30: for a function wrapped by debounce(func, delay), func runs only
\* when delay has passed since the last call with no further call, then
\* once and with the arguments of that last call; a call superseded by a
\* later one within the delay never runs func; and every burst of calls
\* that ends is followed by its one run.
C30_DebounceRunsLastCallOnce ==
  /\ [](RunsServeLastCall /\ Cardinality(timers) <= 1)
  /\ Unserved ~> ~Unserved

\* Two calls with different arguments within the delay, then one run, with
\* the arguments of the second.
C30_Witness ==
  /\ Len(log) = 3
  /\ log[1].kind = "call" /\ log[2].kind = "call" /\ log[3].kind = "run"
  /\ log[2].at < log[1].at + delay
  /\ log[1].args # log[2].args
  /\ log[3].args = log[2].args
  /\ timers = {}

----------------------------------------------------------------------------
(* The style panel. *)

\* The calls of the debounced update, as positions in the log; the
\* position of the call to the same layer and property before position i
\* (0 if none).
CallsAt == { i \in DOMAIN log : log[i].kind = "call" }

SameKey(a, b) == a[1] = b[1] /\ a[2] = b[2]

PreviousCall(i) ==
  LET before == { j \in CallsAt : j < i /\ SameKey(log[j].args, log[i].args) }
  IN IF before = {} THEN 0
     ELSE CHOOSE j \in before : \A k \in before : k <= j

\* A call opens a burst unless the change before it to the same property
\* came less than `delay` earlier.
OpensBurst(i) ==
  \/ PreviousCall(i) = 0
  \/ log[i].at - log[PreviousCall(i)].at >= delay

\* The bursts of changes to properties of layers the document has.
Bursts ==
  { i \in CallsAt : /\ FindLayer(CurDoc.layers, log[i].args[1]) # 0
                    /\ OpensBurst(i) }

\* C31: rapid style changes are debounced before they reach the store: a
\* burst of changes to one layer property, successive changes less than
\* the delay apart, adds one history entry, so the history never holds
\* more entries than the initial one and one for each burst.
C31_BurstAddsOneEntry ==
  Len(styleHistory) - 1 <= Cardinality(Bursts)

\* The store holds the value of the last change of every burst (this part
\* of the claim the code keeps).
BurstEndsWithLastValue ==
  \A i \in CallsAt :
    (/\ FindLayer(CurDoc.layers, log[i].args[1]) # 0
     /\ ~\E j \in CallsAt : j > i /\ SameKey(log[j].args, log[i].args))
    => CurDoc.layers[FindLayer(CurDoc.layers, log[i].args[1])]
         .paint[log[i].args[2]] = log[i].args[3]

\* The map has been handed, after position n of the log, a value for the
\* layer and property of args, and it is args' value or that of a later
\* change.
ReachedMap(args, n) ==
  \E i \in (n + 1)..Len(log) :
    /\ log[i].kind = "run"
    /\ SameKey(log[i].args, args)
    /\ \E j \in n..i : log[j].kind = "call" /\ log[j].args = log[i].args

\* The store has just accepted the change args, logged at position n.
Accepted(args, n) ==
  /\ last.op = "handleStyleChange"
  /\ last.returned
  /\ Len(log) >= n
  /\ log[n] = [ kind |-> "call", args |-> args, at |-> log[n].at ]
  /\ <<last.layerId, last.property, last.value>> = args
  /\ \A i \in (n + 1)..Len(log) : log[i].kind = "run"

\* C32: every paint-property change the store accepted through the style
\* panel eventually reaches the map: updatePaintProperty is eventually
\* called with its layer and property, and its value or a later one, also
\* when changes to other layers or properties come within the same delay.
C32_AcceptedChangeReachesMap ==
  \A args \in StyleControlsInputs, n \in 1..(2 * MaxCalls) :
    [](Accepted(args, n) => <>ReachedMap(args, n))

----------------------------------------------------------------------------
(* The layer panel and the map. *)

\* The layer is shown on the map.
ShownOnMap(layerId) ==
  VisibilityOf(map.layers[FindLayer(map.layers, layerId)]) # "none"

MapMatchesFlags ==
  \A layerId \in DOMAIN layerVisibility :
    FindLayer(map.layers, layerId) # 0
    => (ShownOnMap(layerId) <=> layerVisibility[layerId])

\* C33: once every pending debounced map update has fired, the visibility
\* of each layer on the map equals the store's visibility flag for that
\* layer, for every interleaving of visibility toggles with the full-style
\* updates of theme apply, undo, redo and reset.
C33_MapVisibilityFollowsStore ==
  timers = {} => MapMatchesFlags

----------------------------------------------------------------------------
(* Export and import. *)

ExportCalls == { "exportStyleJSON", "exportPNG" }

\* A call of an export method has just been made while an export was in
\* progress.
CalledWhileExporting ==
  /\ isExporting
  /\ last' # last
  /\ last'.op \in ExportCalls

\* An export has just ended: the PNG export after its await, or a JSON
\* export that was not turned away.
ExportEnded ==
  /\ last' # last
  /\ \/ last'.op = "exportPNGResumed"
     \/ last'.op = "exportStyleJSON" /\ ~isExporting

\* C34: at most one export is in progress at a time: an export call made
\* while isExporting is true returns { success: false, error: 'Export
\* already in progress' } without starting an export and without clearing
\* the flag of the running one, and isExporting is false after every
\* export that ends.
C34_OneExportAtATime ==
  /\ [](rendering <= 1 /\ (isExporting <=> rendering = 1))
  /\ [][ /\ CalledWhileExporting =>
              /\ last'.result = AlreadyInProgress
              /\ isExporting'
              /\ rendering' = rendering
              /\ downloaded' = downloaded
              /\ emitted' = <<>>
         /\ ExportEnded => ~isExporting' ]_vars

\* Both export methods have been turned away during a PNG export.
C34_Witness ==
  /\ isExporting
  /\ last.op = "exportStyleJSON"
  /\ last.result = AlreadyInProgress
  /\ rendering = 1

\* C35: exportStyleJSON reports failure when the current style does not
\* pass the validation, and reports success only when the validated style
\* was written to a download.
C35_ExportSuccessMeansDownload ==
  (last.op = "exportStyleJSON" /\ last.result # AlreadyInProgress)
  => /\ ~last.valid => ~last.result.success
     /\ last.result.success => last.valid /\ last.wrote

\* C36: importing the file exportStyleJSON produced succeeds and yields a
\* store whose layers, active theme and Visibility Map equal those at the
\* time of the export, whatever was done to the store in between.
C36_ExportImportRoundTrip ==
  last.op = "importExported"
  => /\ last.returned
     /\ CurDoc.layers = downloaded[1].layers
     /\ activeTheme = downloaded[1].activeTheme
     /\ layerVisibility = downloaded[1].layerVisibility

\* The part of the round trip the code keeps: the layers and the theme.
RoundTripLayersAndTheme ==
  last.op = "importExported"
  => /\ last.returned
     /\ CurDoc.layers = downloaded[1].layers
     /\ activeTheme = downloaded[1].activeTheme

----------------------------------------------------------------------------
(* destroy() *)

\* The callbacks a component registered.
CallbacksOf(component) ==
  { Registrations(component)[i][2] : i \in DOMAIN Registrations(component) }

StillRegistered(component) ==
  \E event \in DOMAIN listeners :
    \E i \in DOMAIN listeners[event] :
      listeners[event][i] \in CallbacksOf(component)

StillInvoked(component) ==
  \E i \in DOMAIN delivered : delivered[i].to \in CallbacksOf(component)

\* C37: after destroy() of LayerControls, StyleControls, ThemeSelector or
\* ErrorDisplay none of the callbacks the component registered with
\* AppState.on remains registered, and later store notifications no
\* longer invoke the destroyed component.
C37_DestroyRemovesListeners ==
  \A component \in destroyed :
    ~StillRegistered(component) /\ ~StillInvoked(component)

====
